---- MODULE Spec2Model ----
(***************************************************************************)
(* Teamwork task monitor: the polling scheduler TeamworkTaskManager         *)
(* (adw_trigger_cron_teamwork_tasks.py), the eligibility test and the       *)
(* status mapping of data_models.py, the remote task service it polls and   *)
(* the detached workflow processes it spawns; the split monitor, the text   *)
(* functions of the monitors, the worktree names, and the two workflow      *)
(* scripts followed statement by statement.                                 *)
(***************************************************************************)
EXTENDS Integers, Sequences, FiniteSets, TLC

(* ------------------------------ bounds --------------------------------- *)
NumTasks == 2      \* tasks held by the remote project
NumIds   == 2      \* values generate_short_id can return
MaxConc  == 2      \* largest max_concurrent_tasks tried
Cap      == 2      \* saturation of the event counters

Tasks   == 1..NumTasks
Ids     == 1..NumIds
AllInst == {1, 2}  \* scheduler processes that may exist
NoId    == 0

(* ------------------------- data_models.py ------------------------------ *)
\* str.lower() on the status strings and the words that occur
Lower(s) ==
  CASE s = "New"         -> "new"
    [] s = "To Do"       -> "to do"
    [] s = "Review"      -> "review"
    [] s = "In Progress" -> "in progress"
    [] s = "In progress" -> "in progress"
    [] s = "Not started" -> "not started"
    [] s = "HIL Review"  -> "hil review"
    [] s = "Complete"    -> "complete"
    [] s = "Blocked"     -> "blocked"
    [] s = "Done"        -> "done"
    [] s = "Failed"      -> "failed"
    [] s = "NEW"         -> "new"
    [] s = "TO DO"       -> "to do"
    [] s = "REVIEW"      -> "review"
    [] s = "DONE"        -> "done"
    [] s = "EXECUTE"     -> "execute"
    [] s = "CONTINUE"    -> "continue"
    [] OTHER             -> s

eligible_statuses == {"new", "to do", "review"}

is_eligible_for_processing_nostatus(status, trigger) ==
  trigger \in {"execute", "continue"}

\* TeamworkTask.is_eligible_for_processing
is_eligible_for_processing(status, trigger) ==
  /\ status # ""
  /\ Lower(status) \in eligible_statuses
  /\ trigger \in {"execute", "continue"}

\* dict.get(key, default) on the tags, "" standing for a missing key
TagOr(value, default) == IF value # "" THEN value ELSE default

get_preferred_model_unchecked(model, tags_model) ==
  IF model # "" THEN model ELSE TagOr(tags_model, "sonnet")

\* TeamworkTask.get_preferred_model: model = self.model or
\* self.tags.get("model", "sonnet"); opus or sonnet, sonnet otherwise
get_preferred_model(model, tags_model) ==
  LET m == IF model # "" THEN model ELSE TagOr(tags_model, "sonnet") IN
  IF m \in {"opus", "sonnet"} THEN m ELSE "sonnet"

FullWorkflowLength == 500

\* TeamworkTask.should_use_full_workflow
should_use_full_workflow(workflow_type, tags_workflow, prompt_len) ==
  \/ workflow_type = "plan"
  \/ tags_workflow = "plan"
  \/ prompt_len > FullWorkflowLength

\* TeamworkCronConfig.status_mapping default
status_mapping ==
  [s \in {"Not started", "In progress", "Done", "HIL Review", "Failed"} |->
     CASE s = "Not started" -> "New"
       [] s = "In progress" -> "In Progress"
       [] s = "Done"        -> "Complete"
       [] s = "HIL Review"  -> "Review"
       [] s = "Failed"      -> "Blocked"]

map_status_to_teamwork_identity(system_status) == system_status

\* TeamworkCronConfig.map_status_to_teamwork: dict.get(status, status)
map_status_to_teamwork(system_status) ==
  IF system_status \in DOMAIN status_mapping
    THEN status_mapping[system_status] ELSE system_status

\* polling_interval: int = Field(default=15, ge=5)
MinPollingInterval == 5

\* max_concurrent_tasks: int = Field(default=3, ge=1, le=10)
MinConcurrentTasks == 1

MaxConcurrentTasks == 10

TeamworkCronConfig_unchecked(polling_interval, max_concurrent_tasks) == TRUE

\* TeamworkCronConfig(...): TRUE when the field constraints let the object
\* be built, FALSE when pydantic raises ValidationError
TeamworkCronConfig(polling_interval, max_concurrent_tasks) ==
  /\ polling_interval >= MinPollingInterval
  /\ max_concurrent_tasks >= MinConcurrentTasks
  /\ max_concurrent_tasks <= MaxConcurrentTasks

(* ----------------------------- state ----------------------------------- *)
VARIABLES
  remote,          \* the remote project: task -> [status, trigger]
  config,          \* command line and environment of the monitor
  insts,           \* the scheduler processes that run
  pc,              \* position of each scheduler process
  tasks,           \* run_once: the list get_eligible_tasks returned
  idx,             \* run_once: position of the for loop in tasks
  processed,       \* run_once: the counter it returns
  active_adw_ids,  \* TeamworkTaskManager.active_adw_ids
  adw_id,          \* delegate_task: the dispatch id in use
  result,          \* delegate_task: its return value
  executions,      \* detached workflow processes not yet run
  nClaimOk,        \* history: successful claims per task (saturating)
  nSpawn,          \* history: spawned processes per task (saturating)
  call,            \* history of the delegate_task call in progress
  cyc,             \* history of the polling cycle in progress
  text,            \* one task record going through the text functions
  unit,            \* one call of a pure function: its argument and result
  run              \* one workflow process followed statement by statement

vars == <<remote, config, insts, pc, tasks, idx, processed, active_adw_ids,
          adw_id, result, executions, nClaimOk, nSpawn, call, cyc, text,
          unit, run>>

\* the task records the remote project can hold: status, the trigger and
\* the tags the fetch reports (tags.model, tags.prototype, tags.workflow) and
\* the length of task_prompt
TaskKinds ==
  {[status |-> "New", trigger |-> "none", model |-> "", prototype |-> "",
    workflow |-> "", prompt_len |-> 10],
   [status |-> "new", trigger |-> "execute", model |-> "opus",
    prototype |-> "", workflow |-> "", prompt_len |-> 500],
   [status |-> "New", trigger |-> "execute", model |-> "",
    prototype |-> "vite_vue", workflow |-> "", prompt_len |-> 501]}

Range(s) == {s[k] : k \in DOMAIN s}

\* lists of distinct tasks in the remote's order: what one fetch can return
TaskLists ==
  {s \in UNION {[1..n -> Tasks] : n \in 0..NumTasks} :
     \A a, b \in DOMAIN s : a < b => s[a] < s[b]}

Bump(n) == IF n < Cap THEN n + 1 ELSE Cap

NewCall(ids, st) ==
  [startIds |-> ids, statusBefore |-> st, updates |-> <<>>,
   claimOk |-> FALSE, spawned |-> FALSE, outcome |-> "none", cmd |-> <<>>]

NewCycle(rem) ==
  [claimed |-> {}, spawned |-> {}, fetch |-> "none", startRemote |-> rem,
   raised |-> FALSE, listed |-> <<>>, results |-> <<>>]

\* no task record in the text functions
NoText ==
  [body |-> <<>>, status |-> "", phase |-> "idle", trigger |-> "none",
   eligible |-> FALSE, listed |-> FALSE, prompt |-> <<>>]

\* no workflow process under observation
NoRun == [pc |-> "none"]

\* no pure function under evaluation
NoUnit == [fn |-> "none", arg |-> <<>>, out |-> <<>>, done |-> FALSE]

\* the locals and the histories before anything has run
InitLocals ==
  /\ pc = [i \in AllInst |-> "start"]
  /\ tasks = [i \in AllInst |-> <<>>]
  /\ idx = [i \in AllInst |-> 0]
  /\ processed = [i \in AllInst |-> 0]
  /\ active_adw_ids = [i \in AllInst |-> {}]
  /\ adw_id = [i \in AllInst |-> NoId]
  /\ result = [i \in AllInst |-> FALSE]
  /\ executions = {}
  /\ nClaimOk = [t \in Tasks |-> 0]
  /\ nSpawn = [t \in Tasks |-> 0]
  /\ call = [i \in AllInst |-> NewCall({}, "")]
  /\ cyc = [i \in AllInst |-> NewCycle(remote)]

InitCommon ==
  /\ remote \in [Tasks -> TaskKinds]
  /\ config \in [once : BOOLEAN, dry_run : BOOLEAN,
                 max_concurrent_tasks : 1..MaxConc, has_project_id : BOOLEAN]
  /\ InitLocals
  /\ text = NoText
  /\ unit = NoUnit
  /\ run = NoRun

Init == InitCommon /\ insts = {1}

(* ------------------- the remote service (agent.py) --------------------- *)
\* execute_template("/update_teamwork_task"): a successful update sets the
\* status, a failed one leaves the task as it was
execute_template_update(rem, t, teamwork_status, ok) ==
  IF ok THEN [rem EXCEPT ![t].status = teamwork_status] ELSE rem

(* ------------------------------ main ----------------------------------- *)
\* main(): configuration, then run_once or run_continuous
main(i) ==
  /\ pc[i] = "start"
  /\ pc' = [pc EXCEPT ![i] = IF config.has_project_id THEN "cycle" ELSE "exit1"]
  /\ UNCHANGED <<remote, config, insts, text, unit, run, tasks, idx,
                 processed, active_adw_ids, adw_id, result, executions,
                 nClaimOk, nSpawn, call, cyc>>

(* ----------------------- get_eligible_tasks ---------------------------- *)
FetchOutcomes == {"fail", "raise", "unparsable", "empty", "ok"}

\* the task records in response.output, by outcome of the fetch
ReturnedFor(outcome) ==
  IF outcome \in {"ok", "fail"} THEN TaskLists ELSE {<<>>}

get_eligible_tasks_ignoring_failure(outcome, returned, bad) ==
  SelectSeq(returned, LAMBDA t :
     /\ t \notin bad
     /\ is_eligible_for_processing(remote[t].status, remote[t].trigger))

\* what get_eligible_tasks returns: [] unless the fetch succeeded with a
\* non-empty list; records that fail to parse (bad) and ineligible ones are
\* skipped, the order of the others is kept
get_eligible_tasks(outcome, returned, bad) ==
  IF outcome # "ok" \/ returned = <<>> THEN <<>>
  ELSE SelectSeq(returned, LAMBDA t :
         /\ t \notin bad
         /\ is_eligible_for_processing(remote[t].status, remote[t].trigger))

\* run_once up to the for loop: fetch, then return 0 on an empty list
run_once_fetch(i) ==
  /\ pc[i] = "cycle"
  /\ \E outcome \in FetchOutcomes :
     \E returned \in ReturnedFor(outcome) :
     \E bad \in IF outcome = "ok" THEN SUBSET Range(returned) ELSE {{}} :
       LET ts == get_eligible_tasks(outcome, returned, bad) IN
       /\ tasks' = [tasks EXCEPT ![i] = ts]
       /\ processed' = [processed EXCEPT ![i] = 0]
       /\ idx' = [idx EXCEPT ![i] = IF ts = <<>> THEN 0 ELSE 1]
       /\ pc' = [pc EXCEPT ![i] = IF ts = <<>> THEN "cycle_end" ELSE "delegate"]
       /\ cyc' = [cyc EXCEPT ![i] = [NewCycle(remote) EXCEPT !.fetch = outcome,
                                                           !.listed = ts]]
  /\ UNCHANGED <<remote, config, insts, text, unit, run, active_adw_ids,
                 adw_id, result, executions, nClaimOk, nSpawn, call>>

(* --------------------------- delegate_task ----------------------------- *)
CurTaskReversed(i) == tasks[i][Len(tasks[i]) + 1 - idx[i]]

\* for task in tasks: self.delegate_task(task)
CurTask(i) == tasks[i][idx[i]]

\* the id check of delegate_task: one regeneration on a collision
ChosenId(ids, first, second) == IF first \in ids THEN second ELSE first

\* delegate_task up to the claim: mint the dispatch id and add it
delegate_task_mint(i) ==
  /\ pc[i] = "delegate"
  /\ \E first \in Ids, second \in Ids :
       LET id == ChosenId(active_adw_ids[i], first, second) IN
       /\ adw_id' = [adw_id EXCEPT ![i] = id]
       /\ active_adw_ids' = [active_adw_ids EXCEPT ![i] = @ \cup {id}]
  /\ call' = [call EXCEPT ![i] =
                NewCall(active_adw_ids[i], remote[CurTask(i)].status)]
  /\ pc' = [pc EXCEPT ![i] = "claim"]
  /\ UNCHANGED <<remote, config, insts, text, unit, run, tasks, idx,
                 processed, result, executions, nClaimOk, nSpawn, cyc>>

AfterClaimAlwaysSpawn(ok) == "spawn"

\* if not self.update_task_status(...): return False
AfterClaim(ok) == IF ok THEN "spawn" ELSE "delegate_ret"

IdsAfterClaimFailureKept(ids, id) == ids

\* self.active_adw_ids.discard(adw_id) on a failed claim
IdsAfterClaimFailure(ids, id) == ids \ {id}

Update(t, system_status) ==
  [task |-> t, status |-> system_status,
   sent |-> map_status_to_teamwork(system_status)]

\* the claim: update_task_status(task_id, "In progress", metadata)
delegate_task_claim(i) ==
  /\ pc[i] = "claim"
  /\ \E ok \in BOOLEAN :
       LET t == CurTask(i)
           u == Update(t, "In progress") IN
       /\ remote' = execute_template_update(remote, t, u.sent, ok)
       /\ call' = [call EXCEPT ![i].updates = Append(@, u),
                               ![i].claimOk = ok,
                               ![i].outcome = IF ok THEN @ ELSE "claim_failed"]
       /\ cyc' = [cyc EXCEPT ![i].claimed = @ \cup {t}]
       /\ nClaimOk' = [nClaimOk EXCEPT ![t] = IF ok THEN Bump(@) ELSE @]
       /\ pc' = [pc EXCEPT ![i] = AfterClaim(ok)]
       /\ active_adw_ids' = [active_adw_ids EXCEPT ![i] =
            IF AfterClaim(ok) = "delegate_ret"
              THEN IdsAfterClaimFailure(@, adw_id[i]) ELSE @]
       /\ result' = [result EXCEPT ![i] = FALSE]
  /\ UNCHANGED <<config, insts, text, unit, run, tasks, idx, processed,
                 adw_id, executions, nSpawn>>

\* the script and the argument list delegate_task builds, by the branch
\* taken on task.prototype and task.should_use_full_workflow()
Routes == {"prototype", "full", "build"}

RouteAlwaysFull(task) ==
  IF task.prototype # "" THEN "prototype" ELSE "full"

\* if task.prototype: ... elif task.should_use_full_workflow(): ... else: ...
\* (get_eligible_tasks fills model, workflow_type and prototype from the
\* tags of the record, so the field and the tag are the same value)
Route(task) ==
  IF task.prototype # "" THEN "prototype"
  ELSE IF should_use_full_workflow(task.workflow, task.workflow,
                                   task.prompt_len) THEN "full"
  ELSE "build"

script_path(route) ==
  IF route = "build" THEN "adw_build_update_teamwork_task"
                     ELSE "adw_plan_implement_update_teamwork_task"

script_args(route) ==
  IF route = "build"
    THEN <<"adw_id", "task_id", "task_prompt", "worktree_name", "model",
           "project_id">>
    ELSE <<"adw_id", "task_id", "task_prompt", "worktree_name", "prototype",
           "model", "project_id">>

\* [script_path] + script_args for a task, with the values of the model and
\* the prototype arguments
Command(t, task) ==
  [task |-> t, script |-> script_path(Route(task)),
   argv |-> script_args(Route(task)),
   model |-> get_preferred_model(task.model, task.model),
   prototype |-> task.prototype]

\* dry run or subprocess.Popen
delegate_task_spawn(i) ==
  /\ pc[i] = "spawn"
  /\ LET t == CurTask(i) IN
     \/ /\ config.dry_run
        /\ call' = [call EXCEPT ![i].outcome = "dry_run"]
        /\ result' = [result EXCEPT ![i] = TRUE]
        /\ pc' = [pc EXCEPT ![i] = "delegate_ret"]
        /\ UNCHANGED <<executions, nSpawn, cyc>>
     \/ /\ ~config.dry_run
        /\ executions' = executions \cup {Command(t, remote[t])}
        /\ nSpawn' = [nSpawn EXCEPT ![t] = Bump(@)]
        /\ call' = [call EXCEPT ![i].spawned = TRUE, ![i].outcome = "spawned",
                                ![i].cmd = Command(t, remote[t])]
        /\ cyc' = [cyc EXCEPT ![i].spawned = @ \cup {t}]
        /\ result' = [result EXCEPT ![i] = TRUE]
        /\ pc' = [pc EXCEPT ![i] = "delegate_ret"]
     \/ /\ ~config.dry_run           \* Popen raises
        /\ pc' = [pc EXCEPT ![i] = "rollback"]
        /\ UNCHANGED <<executions, nSpawn, call, cyc, result>>
  /\ UNCHANGED <<remote, config, insts, text, unit, run, tasks, idx,
                 processed, active_adw_ids, adw_id, nClaimOk>>

RollbackStatusInProgress == "In progress"

\* the system status of the compensating update
RollbackStatus == "Failed"

\* self.active_adw_ids.discard(adw_id) in the except branch
IdsAfterSpawnFailure(ids, id) == ids \ {id}

\* except Exception: update_task_status(task_id, "Failed", ...), discard
delegate_task_rollback(i) ==
  /\ pc[i] = "rollback"
  /\ \E ok \in BOOLEAN :
       LET t == CurTask(i)
           u == Update(t, RollbackStatus) IN
       /\ remote' = execute_template_update(remote, t, u.sent, ok)
       /\ call' = [call EXCEPT ![i].updates = Append(@, u),
                               ![i].outcome = "spawn_failed"]
  /\ active_adw_ids' = [active_adw_ids EXCEPT ![i] =
                          IdsAfterSpawnFailure(@, adw_id[i])]
  /\ result' = [result EXCEPT ![i] = FALSE]
  /\ pc' = [pc EXCEPT ![i] = "delegate_ret"]
  /\ UNCHANGED <<config, insts, text, unit, run, tasks, idx, processed,
                 adw_id, executions, nClaimOk, nSpawn, cyc>>

CountedAlways(n, res) == n + 1

\* if self.delegate_task(task): processed += 1
Counted(n, res) == IF res THEN n + 1 ELSE n

MoreTasksUnlessFailed(k, n, res) == res /\ k < n

\* for task in tasks: the loop goes on whatever delegate_task returned
MoreTasks(k, n, res) == k < n

\* the for loop of run_once: count, sleep(1), next task or return; the
\* locals of the finished delegate_task call and, on return, of run_once
\* are gone
run_once_next(i) ==
  /\ pc[i] = "delegate_ret"
  /\ processed' = [processed EXCEPT ![i] = Counted(@, result[i])]
  /\ IF MoreTasks(idx[i], Len(tasks[i]), result[i])
       THEN /\ idx' = [idx EXCEPT ![i] = @ + 1]
            /\ tasks' = tasks
            /\ pc' = [pc EXCEPT ![i] = "delegate"]
       ELSE /\ idx' = [idx EXCEPT ![i] = 0]
            /\ tasks' = [tasks EXCEPT ![i] = <<>>]
            /\ pc' = [pc EXCEPT ![i] = "cycle_end"]
  /\ adw_id' = [adw_id EXCEPT ![i] = NoId]
  /\ result' = [result EXCEPT ![i] = FALSE]
  /\ call' = [call EXCEPT ![i] = NewCall({}, "")]
  /\ cyc' = [cyc EXCEPT ![i].results = Append(@, result[i])]
  /\ UNCHANGED <<remote, config, insts, text, unit, run, active_adw_ids,
                 executions, nClaimOk, nSpawn>>

(* ------------------- run_continuous and --once ------------------------- *)
\* main(): processed = manager.run_once(); sys.exit(0)
main_exit_once(i) ==
  /\ pc[i] = "cycle_end"
  /\ config.once
  /\ pc' = [pc EXCEPT ![i] = "exit0"]
  /\ UNCHANGED <<remote, config, insts, text, unit, run, tasks, idx,
                 processed, active_adw_ids, adw_id, result, executions,
                 nClaimOk, nSpawn, call, cyc>>

\* run_continuous: time.sleep(polling_interval), then the next cycle
run_continuous_sleep(i) ==
  /\ pc[i] = "cycle_end"
  /\ ~config.once
  /\ pc' = [pc EXCEPT ![i] = "cycle"]
  /\ processed' = [processed EXCEPT ![i] = 0]
  /\ cyc' = [cyc EXCEPT ![i] = NewCycle(remote)]
  /\ UNCHANGED <<remote, config, insts, text, unit, run, tasks, idx,
                 active_adw_ids, adw_id, result, executions, nClaimOk, nSpawn,
                 call>>

RunningPcs == {"cycle", "delegate", "claim", "spawn", "rollback",
               "delegate_ret", "cycle_end"}

\* KeyboardInterrupt: run_continuous catches it and returns, in --once mode
\* nothing catches it
KeyboardInterrupt(i) ==
  /\ pc[i] \in RunningPcs
  /\ pc' = [pc EXCEPT ![i] = IF config.once THEN "crashed" ELSE "stopped"]
  /\ UNCHANGED <<remote, config, insts, text, unit, run, tasks, idx,
                 processed, active_adw_ids, adw_id, result, executions,
                 nClaimOk, nSpawn, call, cyc>>

\* the places where run_once runs outside every try block: the request of
\* get_eligible_tasks and of update_task_status is built before the try
\* (generate_short_id(), os.getcwd(), the request model), and so is the
\* preparation of delegate_task
UnguardedPcs == {"cycle", "claim", "rollback"}

\* an exception raised there leaves run_once; run_continuous logs it and
\* re-raises it (except Exception: ... raise), main has no handler
unguarded_raise(i) ==
  /\ pc[i] \in UnguardedPcs
  /\ pc' = [pc EXCEPT ![i] = "crashed"]
  /\ cyc' = [cyc EXCEPT ![i].raised = TRUE]
  /\ UNCHANGED <<remote, config, insts, text, unit, run, tasks, idx,
                 processed, active_adw_ids, adw_id, result, executions,
                 nClaimOk, nSpawn, call>>

(* ------------------------ workflow processes --------------------------- *)
Options == {"--model", "--project-id"}

\* the positional arguments of a command line: all but the options and
\* their values
NumPositional(argv) ==
  Len(argv) - 2 * Cardinality({k \in DOMAIN argv : argv[k] \in Options})

\* argparse of the workflow scripts: four positionals, and an optional
\* fifth (prototype, nargs="?") in the plan-implement script
parse_args(script, argv) ==
  IF script = "adw_build_update_teamwork_task"
    THEN NumPositional(argv) = 4
    ELSE NumPositional(argv) \in {4, 5}

\* update_status = "Done" if workflow_success and commit_hash else "Failed"
update_status(workflow_success, commit_hash) ==
  IF workflow_success /\ commit_hash THEN "Done" ELSE "Failed"

\* a spawned workflow script runs from its first statement to its last:
\* argument parsing (exit on error), then main(): the agent, the commit
\* hash and one update with "Done" or "Failed", or an exception outside
\* the try block and no update
workflow_main(e) ==
  /\ e \in executions
  /\ executions' = executions \ {e}
  /\ IF parse_args(e.script, e.argv)
       THEN \/ \E workflow_success \in BOOLEAN, commit_hash \in BOOLEAN,
                  ok \in BOOLEAN :
                 /\ commit_hash => workflow_success
                 /\ remote' = execute_template_update(remote, e.task,
                       update_status(workflow_success, commit_hash), ok)
            \/ remote' = remote
       ELSE remote' = remote
  /\ UNCHANGED <<config, insts, text, unit, run, pc, tasks, idx, processed,
                 active_adw_ids, adw_id, result, nClaimOk, nSpawn, call, cyc>>

Next ==
  \/ \E i \in insts : main(i)
  \/ \E i \in insts : run_once_fetch(i)
  \/ \E i \in insts : delegate_task_mint(i)
  \/ \E i \in insts : delegate_task_claim(i)
  \/ \E i \in insts : delegate_task_spawn(i)
  \/ \E i \in insts : delegate_task_rollback(i)
  \/ \E i \in insts : run_once_next(i)
  \/ \E i \in insts : main_exit_once(i)
  \/ \E i \in insts : run_continuous_sleep(i)
  \/ \E i \in insts : KeyboardInterrupt(i)
  \/ \E i \in insts : unguarded_raise(i)
  \/ \E e \in executions : workflow_main(e)

Spec == Init /\ [][Next]_vars

\* two monitors started on the same project, neither in dry-run mode, with
\* one task of the project carrying a trigger
InitTwo ==
  /\ InitCommon
  /\ insts = {1, 2}
  /\ config.has_project_id
  /\ ~config.dry_run
  /\ config.max_concurrent_tasks = 1
  /\ \A t \in Tasks : remote[t].trigger = "execute" <=> t = 1

SpecTwo == InitTwo /\ [][Next]_vars

(* ---------- the text functions (split, simple and direct scripts) ------- *)
\* A description is a sequence of pieces: a piece is a whole word
\* ("execute", "continue" in two letter cases, the names and values of the
\* tags, the words of a prompt), the letter "a", a blank, a line break, a
\* hyphen, a colon, or a pair of braces. No other word ends with
\* "execute" or holds "continue", so the regular expressions below match
\* whole pieces only.
IsSpace(c) == c \in {" ", "\n"}

\* \w: the words, among them those of the tags and of their values
IsWord(c) ==
  c \in {"a", "execute", "EXECUTE", "continue", "CONTINUE", "model", "opus",
         "sonnet", "prototype", "vite_vue", "do", "the", "thing"}

SetMin(S) == CHOOSE x \in S : \A y \in S : x <= y

SetMax(S) == CHOOSE x \in S : \A y \in S : y <= x

\* str.strip()
strip(s) ==
  LET nz == {k \in DOMAIN s : ~IsSpace(s[k])} IN
  IF nz = {} THEN <<>> ELSE SubSeq(s, SetMin(nz), SetMax(nz))

\* continue\s*- : the position of the hyphen that follows the word at k
\* after optional white space, 0 if there is none
HyphenAfter(s, k) ==
  LET js == {j \in (k + 1)..Len(s) : ~IsSpace(s[j])} IN
  IF js = {} THEN 0
  ELSE IF s[SetMin(js)] = "-" THEN SetMin(js) ELSE 0

\* r'continue\s*-\s*.+' with re.IGNORECASE matches from position k: after
\* the hyphen and optional white space comes a character that is not a line
\* break ('.' without re.DOTALL)
ContinueMatchesAt(s, k) ==
  /\ Lower(s[k]) = "continue"
  /\ LET j == HyphenAfter(s, k) IN
       /\ j > 0
       /\ \E p \in (j + 1)..Len(s) :
             /\ s[p] # "\n"
             /\ \A q \in (j + 1)..(p - 1) : IsSpace(s[q])

detect_execution_trigger_anycase(description) ==
  IF /\ strip(description) # <<>>
     /\ Lower(strip(description)[Len(strip(description))]) = "execute"
    THEN "execute"
  ELSE IF \E k \in DOMAIN description : ContinueMatchesAt(description, k)
    THEN "continue"
  ELSE "none"

\* detect_execution_trigger: description.strip().endswith('execute') first,
\* then the continue pattern
detect_execution_trigger(description) ==
  IF /\ strip(description) # <<>>
     /\ strip(description)[Len(strip(description))] = "execute"
    THEN "execute"
  ELSE IF \E k \in DOMAIN description : ContinueMatchesAt(description, k)
    THEN "continue"
  ELSE "none"

\* r'\{\{\w+:\s*[^}]+\}\}' matched from position k: the position of the
\* closing braces, 0 if there is no match
TagEnd(s, k) ==
  IF s[k] # "{{" THEN 0
  ELSE
    LET nw == {j \in (k + 1)..Len(s) : ~IsWord(s[j])}
        c  == IF nw = {} THEN 0 ELSE SetMin(nw)
    IN IF c = 0 \/ c = k + 1 THEN 0
       ELSE IF s[c] # ":" THEN 0
       ELSE
         LET cl == {j \in (c + 1)..Len(s) : s[j] = "}}"}
             e  == IF cl = {} THEN 0 ELSE SetMin(cl)
         IN IF e > c + 1 THEN e ELSE 0

RECURSIVE RemoveInlineTags(_)
\* re.sub(r'\{\{\w+:\s*[^}]+\}\}', '', prompt)
RemoveInlineTags(s) ==
  IF s = <<>> THEN <<>>
  ELSE LET e == TagEnd(s, 1) IN
       IF e > 0 THEN RemoveInlineTags(SubSeq(s, e + 1, Len(s)))
       ELSE <<s[1]>> \o RemoveInlineTags(Tail(s))

\* the groups of the match of r'\{\{(\w+):\s*([^}]+)\}\}' at position k,
\* the value after value.strip()
TagSpan(s, k) ==
  LET c == SetMin({j \in (k + 1)..Len(s) : ~IsWord(s[j])})
      e == TagEnd(s, k)
  IN [key |-> SubSeq(s, k + 1, c - 1),
      value |-> strip(SubSeq(s, c + 1, e - 1))]

RECURSIVE FindAllTags(_, _)
\* re.findall(pattern, description) from position k on: the matches from
\* left to right, none overlapping another
FindAllTags(s, k) ==
  IF k > Len(s) THEN <<>>
  ELSE LET e == TagEnd(s, k) IN
       IF e > 0 THEN <<TagSpan(s, k)>> \o FindAllTags(s, e + 1)
       ELSE FindAllTags(s, k + 1)

extract_inline_tags_first(description) ==
  LET ms == FindAllTags(description, 1) IN
  [key \in {ms[i].key : i \in DOMAIN ms} |->
     ms[SetMin({i \in DOMAIN ms : ms[i].key = key})].value]

\* extract_inline_tags / extract_tags_from_description: the dictionary
\* filled match by match, a later match replacing an earlier one
extract_inline_tags(description) ==
  LET ms == FindAllTags(description, 1) IN
  [key \in {ms[i].key : i \in DOMAIN ms} |->
     ms[SetMax({i \in DOMAIN ms : ms[i].key = key})].value]

\* re.sub(r'\s*execute\s*$', '', prompt, flags=re.IGNORECASE)
StripTrailingExecute(p) ==
  LET nz == {k \in DOMAIN p : ~IsSpace(p[k])} IN
  IF nz = {} THEN p
  ELSE IF Lower(p[SetMax(nz)]) # "execute" THEN p
  ELSE LET before == {k \in nz : k < SetMax(nz)} IN
       IF before = {} THEN <<>> ELSE SubSeq(p, 1, SetMax(before))

\* re.search(r'continue\s*-\s*(.+)', prompt, re.IGNORECASE | re.DOTALL):
\* the positions where the pattern matches (something follows the hyphen)
ContinueStarts(s) ==
  {k \in DOMAIN s : /\ Lower(s[k]) = "continue"
                    /\ HyphenAfter(s, k) > 0
                    /\ HyphenAfter(s, k) < Len(s)}

\* match.group(1) of the leftmost match: \s* takes the white space after
\* the hyphen and gives one character back when nothing else follows
ContinueGroup(s) ==
  LET j   == HyphenAfter(s, SetMin(ContinueStarts(s)))
      nz  == {q \in (j + 1)..Len(s) : ~IsSpace(s[q])}
  IN IF nz = {} THEN SubSeq(s, Len(s), Len(s))
     ELSE SubSeq(s, SetMin(nz), Len(s))

extract_task_prompt_whole(description, execution_trigger) ==
  strip(RemoveInlineTags(description))

\* extract_task_prompt
extract_task_prompt(description, execution_trigger) ==
  LET prompt == RemoveInlineTags(description) IN
  IF execution_trigger = "execute"
    THEN strip(StripTrailingExecute(prompt))
  ELSE IF execution_trigger = "continue" /\ ContinueStarts(prompt) # {}
    THEN strip(ContinueGroup(prompt))
  ELSE strip(prompt)

split_is_eligible_anystatus(status, trigger) ==
  trigger # "none"

\* the two tests of the split monitor on a record: the status filter and
\* "if not execution_trigger: continue"
split_is_eligible(status, trigger) ==
  /\ Lower(status) \in {"new", "to do", "review"}
  /\ trigger # "none"

MaxParts == 4      \* pieces of text a description is made of
MaxShort == 2      \* the same for the descriptions tried with every status

\* the pieces of text descriptions are made of
Fragments ==
  {<<"a">>, <<" ">>, <<"\n">>, <<"execute">>, <<"EXECUTE">>,
   <<"continue", " ", "-", " ">>, <<"CONTINUE", "-">>,
   <<"{{", "a", ":", " ", "a", "}}">>, <<"{{", "a", "}}">>}

RECURSIVE Flatten(_)
Flatten(ps) == IF ps = <<>> THEN <<>> ELSE Head(ps) \o Flatten(Tail(ps))

BodiesOf(n) == {Flatten(ps) : ps \in UNION {[1..m -> Fragments] : m \in 0..n}}

MaxSpans == 3      \* pieces of text a description with tags is made of

\* the pieces of text descriptions with tags are made of: well-formed
\* spans with two keys, with and without blanks around the value, a span
\* without colon, a span with a blank value, and plain text
TagFragments ==
  {<<"{{", "model", ":", " ", "opus", "}}">>,
   <<"{{", "model", ":", "sonnet", " ", "}}">>,
   <<"{{", "prototype", ":", " ", "vite_vue", "}}">>,
   <<"{{", "model", "}}">>,
   <<"{{", "model", ":", " ", "}}">>,
   <<" ">>, <<"do">>, <<"execute">>}

\* "{{model: opus}} {{prototype: vite_vue}} do the thing"
DoTheThing ==
  <<"{{", "model", ":", " ", "opus", "}}", " ",
    "{{", "prototype", ":", " ", "vite_vue", "}}", " ",
    "do", " ", "the", " ", "thing">>

TagBodies ==
  {Flatten(ps) : ps \in UNION {[1..m -> TagFragments] : m \in 0..MaxSpans}}
  \cup {DoTheThing, DoTheThing \o <<" ", "execute">>}

StatusInputs ==
  {"new", "New", "NEW", "to do", "To Do", "review", "Review", "done", "Done",
   "In Progress", "Blocked", ""}

NewText(b, st) ==
  [body |-> b, status |-> st, phase |-> "input", trigger |-> "none",
   eligible |-> FALSE, listed |-> FALSE, prompt |-> <<>>]

\* one record with some description and status, no monitor running
InitText ==
  /\ remote = [t \in Tasks |-> CHOOSE k \in TaskKinds : k.trigger = "none"]
  /\ config = [once |-> TRUE, dry_run |-> TRUE, max_concurrent_tasks |-> 1,
               has_project_id |-> TRUE]
  /\ insts = {}
  /\ InitLocals
  /\ unit = NoUnit
  /\ run = NoRun
  /\ text \in {NewText(b, "new") : b \in BodiesOf(MaxParts)} \cup
              {NewText(b, st) : b \in BodiesOf(MaxShort), st \in StatusInputs}

\* process_task / the loop body of the split monitor, first half: the
\* trigger is detected and the record is tested for eligibility
text_detect ==
  /\ text.phase = "input"
  /\ LET trig == detect_execution_trigger(text.body) IN
       text' = [text EXCEPT
                  !.phase = "detected",
                  !.trigger = trig,
                  !.eligible = is_eligible_for_processing(text.status, trig),
                  !.listed = split_is_eligible(text.status, trig)]
  /\ UNCHANGED <<remote, config, insts, pc, tasks, idx, processed,
                 active_adw_ids, adw_id, result, executions, nClaimOk, nSpawn,
                 call, cyc, unit, run>>

\* second half, for a record with a trigger: the prompt is extracted
text_extract ==
  /\ text.phase = "detected"
  /\ text.trigger # "none"
  /\ text' = [text EXCEPT
                !.phase = "done",
                !.prompt = extract_task_prompt(text.body, text.trigger)]
  /\ UNCHANGED <<remote, config, insts, pc, tasks, idx, processed,
                 active_adw_ids, adw_id, result, executions, nClaimOk, nSpawn,
                 call, cyc, unit, run>>

NextText == text_detect \/ text_extract

SpecText == InitText /\ [][NextText]_vars

(* -------- the split monitor (adw_trigger_cron_teamwork_tasks_split.py) -- *)
\* main() up to the loop: arguments, then
\* project_id = os.getenv("TEAMWORK_PROJECT_ID", "805682"); a missing
\* project id is replaced by the default and the loop starts
split_main(i) ==
  /\ pc[i] = "start"
  /\ pc' = [pc EXCEPT ![i] = "cycle"]
  /\ UNCHANGED <<remote, config, insts, text, unit, run, tasks, idx,
                 processed, active_adw_ids, adw_id, result, executions,
                 nClaimOk, nSpawn, call, cyc>>

SplitOutcomes == {"fail", "unparsable", "raise", "ok"}

\* steps 1 and 2 of a cycle: the status filter and the trigger test on each
\* record of the list, then eligible_tasks[:config.max_concurrent_tasks]
split_eligible(returned, limit) ==
  LET el == SelectSeq(returned, LAMBDA t :
              split_is_eligible(remote[t].status, remote[t].trigger))
  IN IF Len(el) <= limit THEN el ELSE SubSeq(el, 1, limit)

\* one /list_teamwork_tasks call; a failed call, an unparsable answer or an
\* exception inside the try block gives a cycle without tasks
split_list(i) ==
  /\ pc[i] = "cycle"
  /\ \E outcome \in SplitOutcomes :
     \E returned \in IF outcome = "ok" THEN TaskLists ELSE {<<>>} :
       LET ts == split_eligible(returned, config.max_concurrent_tasks) IN
       /\ tasks' = [tasks EXCEPT ![i] = ts]
       /\ processed' = [processed EXCEPT ![i] = 0]
       /\ idx' = [idx EXCEPT ![i] = IF ts = <<>> THEN 0 ELSE 1]
       /\ pc' = [pc EXCEPT ![i] = IF ts = <<>> THEN "cycle_end" ELSE "spawn"]
       /\ cyc' = [cyc EXCEPT ![i].fetch = outcome, ![i].listed = ts]
  /\ UNCHANGED <<remote, config, insts, text, unit, run, active_adw_ids,
                 adw_id, result, executions, nClaimOk, nSpawn, call>>

\* the command line the split monitor builds: options for the model and the
\* project id, model = tags.get("model", "sonnet")
SplitCommand(t, task) ==
  [task |-> t,
   script |-> IF task.prototype # ""
                THEN "adw_plan_implement_update_teamwork_task"
                ELSE "adw_build_update_teamwork_task",
   argv |-> IF task.prototype # ""
              THEN <<"adw_id", "task_id", "task_prompt", "worktree_name",
                     "prototype", "--model", "model", "--project-id",
                     "project_id">>
              ELSE <<"adw_id", "task_id", "task_prompt", "worktree_name",
                     "--model", "model", "--project-id", "project_id">>,
   model |-> TagOr(task.model, "sonnet"),
   prototype |-> task.prototype]

\* step 3 for one task: spawn_workflow, with no status update before it;
\* then the next task or the end of the cycle
split_spawn(i) ==
  /\ pc[i] = "spawn"
  /\ LET t == CurTask(i) IN
     \/ /\ config.dry_run
        /\ processed' = [processed EXCEPT ![i] = @ + 1]
        /\ UNCHANGED <<executions, nSpawn, cyc>>
     \/ /\ ~config.dry_run
        /\ executions' = executions \cup {SplitCommand(t, remote[t])}
        /\ nSpawn' = [nSpawn EXCEPT ![t] = Bump(@)]
        /\ cyc' = [cyc EXCEPT ![i].spawned = @ \cup {t}]
        /\ processed' = [processed EXCEPT ![i] = @ + 1]
     \/ /\ ~config.dry_run           \* Popen raises: spawn_workflow is False
        /\ UNCHANGED <<executions, nSpawn, cyc, processed>>
  /\ IF idx[i] < Len(tasks[i])
       THEN /\ idx' = [idx EXCEPT ![i] = @ + 1]
            /\ UNCHANGED <<tasks, pc>>
       ELSE /\ idx' = [idx EXCEPT ![i] = 0]
            /\ tasks' = [tasks EXCEPT ![i] = <<>>]
            /\ pc' = [pc EXCEPT ![i] = "cycle_end"]
  /\ UNCHANGED <<remote, config, insts, text, unit, run, active_adw_ids,
                 adw_id, result, nClaimOk, call>>

\* if args.once: break; main returns
split_exit_once(i) ==
  /\ pc[i] = "cycle_end"
  /\ config.once
  /\ pc' = [pc EXCEPT ![i] = "exit0"]
  /\ UNCHANGED <<remote, config, insts, text, unit, run, tasks, idx,
                 processed, active_adw_ids, adw_id, result, executions,
                 nClaimOk, nSpawn, call, cyc>>

\* time.sleep(args.interval), then the next cycle
split_sleep(i) ==
  /\ pc[i] = "cycle_end"
  /\ ~config.once
  /\ pc' = [pc EXCEPT ![i] = "cycle"]
  /\ processed' = [processed EXCEPT ![i] = 0]
  /\ cyc' = [cyc EXCEPT ![i].fetch = "none", ![i].listed = <<>>,
                        ![i].spawned = {}]
  /\ UNCHANGED <<remote, config, insts, text, unit, run, tasks, idx,
                 active_adw_ids, adw_id, result, executions, nClaimOk, nSpawn,
                 call>>

\* KeyboardInterrupt anywhere, or an exception while the request is built
\* before the try block: main has no handler for either
split_abort(i) ==
  /\ pc[i] \in {"cycle", "spawn", "cycle_end"}
  /\ pc' = [pc EXCEPT ![i] = "crashed"]
  /\ UNCHANGED <<remote, config, insts, text, unit, run, tasks, idx,
                 processed, active_adw_ids, adw_id, result, executions,
                 nClaimOk, nSpawn, call, cyc>>

NextSplit ==
  \/ \E i \in insts : split_main(i)
  \/ \E i \in insts : split_list(i)
  \/ \E i \in insts : split_spawn(i)
  \/ \E i \in insts : split_exit_once(i)
  \/ \E i \in insts : split_sleep(i)
  \/ \E i \in insts : split_abort(i)
  \/ \E e \in executions : workflow_main(e)

\* one split monitor on a project where the first two tasks may carry a
\* trigger
InitSplit ==
  /\ Init
  /\ \A t \in Tasks : remote[t].trigger = "execute" => t <= 2

SpecSplit == InitSplit /\ [][NextSplit]_vars

(* ------------------------ worktree names ------------------------------- *)
\* A text is a sequence of runs [ch, n]: the character ch repeated n times,
\* no two neighbouring runs with the same character.
MaxRuns == 3       \* runs a title or a prompt is made of

\* name[:50] / task_description[:50]
NameLimit == 50

UpperLetters ==
  <<"A", "B", "C", "D", "E", "F", "G", "H", "I", "J", "K", "L", "M",
    "N", "O", "P", "Q", "R", "S", "T", "U", "V", "W", "X", "Y", "Z">>

LowerLetters ==
  <<"a", "b", "c", "d", "e", "f", "g", "h", "i", "j", "k", "l", "m",
    "n", "o", "p", "q", "r", "s", "t", "u", "v", "w", "x", "y", "z">>

Digits == <<"0", "1", "2", "3", "4", "5", "6", "7", "8", "9">>

Run(c, n) == [ch |-> c, n |-> n]

RECURSIVE Norm(_)
\* neighbouring runs of one character joined
Norm(s) ==
  IF Len(s) <= 1 THEN s
  ELSE LET r == Norm(Tail(s)) IN
       IF s[1].ch = r[1].ch
         THEN <<Run(s[1].ch, s[1].n + r[1].n)>> \o Tail(r)
         ELSE <<s[1]>> \o r

\* the text of a sequence of characters
Chars(cs) == Norm([k \in DOMAIN cs |-> Run(cs[k], 1)])

RECURSIVE StrLen(_)
\* len(s)
StrLen(s) == IF s = <<>> THEN 0 ELSE s[1].n + StrLen(Tail(s))

RECURSIVE Take(_, _)
\* s[:k]
Take(s, k) ==
  IF s = <<>> \/ k <= 0 THEN <<>>
  ELSE IF s[1].n <= k THEN <<s[1]>> \o Take(Tail(s), k - s[1].n)
  ELSE <<Run(s[1].ch, k)>>

\* str.lower() on one character
LowerChar(c) ==
  IF \E k \in DOMAIN UpperLetters : UpperLetters[k] = c
    THEN LowerLetters[CHOOSE k \in DOMAIN UpperLetters : UpperLetters[k] = c]
    ELSE IF c = "É" THEN "é" ELSE c

\* str.lower()
str_lower(s) == Norm([k \in DOMAIN s |-> Run(LowerChar(s[k].ch), s[k].n)])

\* the class [a-z0-9]
IsAZ09(c) == c \in Range(LowerLetters) \cup Range(Digits)

\* re.sub(r'[^a-z0-9]+', '-', name): every maximal stretch of other
\* characters becomes one hyphen
re_sub_hyphen(s) ==
  LET marked == Norm([k \in DOMAIN s |->
                        IF IsAZ09(s[k].ch) THEN s[k] ELSE Run("-", s[k].n)])
  IN [k \in DOMAIN marked |->
        IF marked[k].ch = "-" THEN Run("-", 1) ELSE marked[k]]

\* name.strip('-')
strip_hyphens(s) ==
  LET keep == {k \in DOMAIN s : s[k].ch # "-"} IN
  IF keep = {} THEN <<>> ELSE SubSeq(s, SetMin(keep), SetMax(keep))

\* an f-string of two texts
Concat(a, b) == Norm(a \o b)

\* the value of generate_short_id() for the id drawn
short_id_text(id) == <<Run(Digits[id + 1], 8)>>

\* "proto" if has_prototype else "feat", with the hyphen that follows
Prefix(has_prototype) ==
  IF has_prototype THEN Chars(<<"p", "r", "o", "t", "o", "-">>)
                   ELSE Chars(<<"f", "e", "a", "t", "-">>)

\* TeamworkTaskManager._generate_worktree_name, from task.title
generate_worktree_name(title, has_prototype) ==
  LET stripped == strip_hyphens(re_sub_hyphen(str_lower(title)))
      name == IF StrLen(stripped) > NameLimit
                THEN Take(stripped, NameLimit) ELSE stripped
  IN Concat(Prefix(has_prototype), name)

\* make_worktree_name of the split monitor
make_worktree_name(task_description, has_prototype, id) ==
  LET name == strip_hyphens(re_sub_hyphen(
                str_lower(Take(task_description, NameLimit))))
  IN IF name # <<>>
       THEN Concat(Prefix(has_prototype), name)
       ELSE Concat(Prefix(has_prototype),
                   Chars(<<"t", "a", "s", "k", "-">>) \o short_id_text(id))

\* make_worktree_name of the simple monitor: always proto-
simple_make_worktree_name(task_description, id) ==
  LET name == strip_hyphens(re_sub_hyphen(
                str_lower(Take(task_description, NameLimit))))
  IN IF name # <<>>
       THEN Concat(Prefix(TRUE), name)
       ELSE Concat(Prefix(TRUE),
                   Chars(<<"t", "a", "s", "k", "-">>) \o short_id_text(id))

\* the characters and the run lengths titles and prompts are drawn from
NameChars == {"a", "B", "-"}

RunLens == {1, NameLimit - 1}

FixTheLoginBug ==
  Chars(<<"F", "i", "x", " ", "t", "h", "e", " ", "l", "o", "g", "i", "n",
          " ", "b", "u", "g", "!", "!">>)

NameTexts ==
  {Norm(s) : s \in UNION {[1..k -> {Run(c, n) : c \in NameChars,
                                                 n \in RunLens}] :
                            k \in 0..MaxRuns}}
  \cup {FixTheLoginBug, Chars(<<"v", "2", " ", "É", "!">>),
        Chars(<<"!", "!", "!">>), <<Run("a", NameLimit)>>,
        <<Run("a", NameLimit), Run(" ", 1), Run("b", 1)>>}

(* ---------------- TeamworkTask.get_task_prompt_for_agent ---------------- *)

\* the end of the match of r'\{\{[^}]+\}\}' that starts at position k, 0 if
\* there is none: the first "}}" behind it, with something in between
BraceEnd(s, k) ==
  IF s[k] # "{{" THEN 0
  ELSE LET cl == {j \in (k + 1)..Len(s) : s[j] = "}}"}
           e  == IF cl = {} THEN 0 ELSE SetMin(cl)
       IN IF e > k + 1 THEN e ELSE 0

RECURSIVE RemoveBraces(_)
\* re.sub(r'\{\{[^}]+\}\}', '', desc)
RemoveBraces(s) ==
  IF s = <<>> THEN <<>>
  ELSE LET e == BraceEnd(s, 1) IN
       IF e > 0 THEN RemoveBraces(SubSeq(s, e + 1, Len(s)))
       ELSE <<s[1]>> \o RemoveBraces(Tail(s))

\* desc.replace("execute", ""): every occurrence, in this spelling only
ReplaceExecute(s) == SelectSeq(s, LAMBDA p : p # "execute")

\* TeamworkTask.get_task_prompt_for_agent
get_task_prompt_for_agent(description, execution_trigger, task_prompt) ==
  IF execution_trigger = "continue" THEN task_prompt
  ELSE strip(ReplaceExecute(RemoveBraces(description)))

\* the tasks of the fetch whose description carries a trigger, with the
\* trigger and the prompt the fetch computed for them
PromptTasks ==
  {[description |-> b,
    execution_trigger |-> detect_execution_trigger(b),
    task_prompt |-> extract_task_prompt(b, detect_execution_trigger(b))] :
     b \in {x \in BodiesOf(MaxSpans) : detect_execution_trigger(x) # "none"}}

(* ------------------- Task, Worktree and TaskUpdate ---------------------- *)
MaxTreeTasks == 3  \* tasks of one worktree section

\* the task statuses of Task.validate_status, their glyphs written as
\* words: not started, blocked (clock), in progress (yellow), successful
\* (check) and failed (cross)
valid_statuses == {"[]", "[clock]", "[yellow]", "[check]", "[cross]"}

\* Task.is_eligible_for_pickup
is_eligible_for_pickup(status) == status \in {"[]", "[clock]"}

all_above_ignored(self_tasks, i) == TRUE

\* all(t.status == "[check]" for t in self.tasks[:i])
all_above_successful(self_tasks, i) ==
  \A j \in 1..(i - 1) : self_tasks[j] = "[check]"

RECURSIVE get_eligible_tasks_loop(_, _)
\* for i, task in enumerate(self.tasks): the tasks appended from position i
\* on, each task named by its position in the list
get_eligible_tasks_loop(self_tasks, i) ==
  IF i > Len(self_tasks) THEN <<>>
  ELSE (IF self_tasks[i] = "[]" THEN <<i>>
        ELSE IF /\ self_tasks[i] = "[clock]"
                /\ all_above_successful(self_tasks, i)
          THEN <<i>>
        ELSE <<>>) \o get_eligible_tasks_loop(self_tasks, i + 1)

\* Worktree.get_eligible_tasks
Worktree_get_eligible_tasks(self_tasks) ==
  get_eligible_tasks_loop(self_tasks, 1)

\* the worktree sections: lists of tasks given by their statuses
Worktrees == UNION {[1..n -> valid_statuses] : n \in 0..MaxTreeTasks}

\* the commit_hash argument of a TaskUpdate: left out, None, the empty
\* string or a hash
CommitHashes == {"missing", "None", "", "a1b2c3d4"}

\* the pydantic major version of the build ("pydantic" is not pinned)
PydanticMajors == {1, 2}

\* whether pydantic calls a validator declared without always=True: never
\* for a field left out; for an explicit None of an Optional field only in
\* version 2
ValidatorCalled(v, pydantic) ==
  /\ v # "missing"
  /\ v = "None" => pydantic = 2

\* TaskUpdate.validate_commit_hash: TRUE when the value is returned, FALSE
\* when ValueError is raised
validate_commit_hash(v, status) == ~(status = "[check]" /\ v \in {"None", ""})

\* TaskUpdate(...): TRUE when the object is built, FALSE when pydantic
\* raises ValidationError (the Literal type and validate_final_status on
\* the status, validate_commit_hash on the commit hash when it is called)
TaskUpdate(status, commit_hash, pydantic) ==
  /\ status \in {"[check]", "[cross]"}
  /\ ValidatorCalled(commit_hash, pydantic) =>
       validate_commit_hash(commit_hash, status)

(* --------- the pure functions, each applied to one drawn argument ------- *)
UnitCase(fn, arg) == [fn |-> fn, arg |-> arg, out |-> <<>>, done |-> FALSE]

\* the status names update_task_status can be given: the keys of the
\* default table, the names the remote project uses and one more
SystemStatuses ==
  {"Not started", "In progress", "Done", "HIL Review", "Failed",
   "New", "Review", "Blocked", "To Do"}

\* model names a tag or a field can carry ("" for none)
ModelNames == {"", "opus", "sonnet", "haiku"}

\* task records as get_eligible_tasks and the split monitor build them from
\* the tags, with every combination the routing looks at
RoutedTasks ==
  [status : {"new"}, trigger : {"execute"}, model : ModelNames,
   prototype : {"", "vite_vue"}, workflow : {"", "plan", "build"},
   prompt_len : {0, FullWorkflowLength, FullWorkflowLength + 1}]

\* the values the prototype argument of the plan-implement workflow can
\* take: none, the four known kinds and an unknown one
Prototypes ==
  {"", "uv_script", "vite_vue", "bun_scripts", "uv_mcp", "django"}

plan_command_generic(prototype) == "/plan"

\* the planning command of the plan-implement workflow, by prototype
plan_command(prototype) ==
  IF prototype # ""
    THEN CASE prototype = "uv_script"   -> "/plan_uv_script"
           [] prototype = "vite_vue"    -> "/plan_vite_vue"
           [] prototype = "bun_scripts" -> "/plan_bun_scripts"
           [] prototype = "uv_mcp"      -> "/plan_uv_mcp"
           [] OTHER                     -> "/plan"
    ELSE "/plan"

\* the values --interval and --max-tasks can carry, around the limits
Intervals == -1 .. MinPollingInterval + 1

TaskLimits == -1 .. MaxConcurrentTasks + 1

UnitCases ==
  {UnitCase("update_task_status", st) : st \in SystemStatuses}
  \cup {UnitCase("get_preferred_model", [model |-> a, tags_model |-> b]) :
          a \in ModelNames, b \in ModelNames}
  \cup {UnitCase("delegate_task", task) : task \in RoutedTasks}
  \cup {UnitCase("split_main", task) : task \in RoutedTasks}
  \cup {UnitCase("plan_command", pr) : pr \in Prototypes}
  \cup {UnitCase("generate_worktree_name",
                  [text |-> x, has_prototype |-> b]) :
          x \in NameTexts, b \in BOOLEAN}
  \cup {UnitCase("make_worktree_name",
                  [text |-> x, has_prototype |-> b]) :
          x \in NameTexts, b \in BOOLEAN}
  \cup {UnitCase("simple_make_worktree_name",
                  [text |-> x, has_prototype |-> TRUE]) : x \in NameTexts}
  \cup {UnitCase("extract_inline_tags", b) : b \in TagBodies}
  \cup {UnitCase("get_task_prompt_for_agent", t) : t \in PromptTasks}
  \cup {UnitCase("Worktree.get_eligible_tasks", w) : w \in Worktrees}
  \cup {UnitCase("TaskUpdate",
                  [status |-> st, commit_hash |-> h, pydantic |-> v]) :
          st \in valid_statuses, h \in CommitHashes, v \in PydanticMajors}
  \cup {UnitCase("TeamworkCronConfig",
                  [polling_interval |-> a, max_concurrent_tasks |-> b]) :
          a \in Intervals, b \in TaskLimits}

\* one argument drawn for one function, no monitor running
InitUnit ==
  /\ remote = [t \in Tasks |-> CHOOSE k \in TaskKinds : k.trigger = "none"]
  /\ config = [once |-> TRUE, dry_run |-> TRUE, max_concurrent_tasks |-> 1,
               has_project_id |-> TRUE]
  /\ insts = {}
  /\ InitLocals
  /\ text = NoText
  /\ run = NoRun
  /\ unit \in UnitCases

UnitLocals ==
  <<remote, config, insts, pc, tasks, idx, processed, active_adw_ids,
    adw_id, result, executions, nClaimOk, nSpawn, call, cyc, text, run>>

\* what the function returned
Returns(v) == unit' = [unit EXCEPT !.out = v, !.done = TRUE]

\* update_task_status(task_id, status): the status name put in the request
unit_update_task_status ==
  /\ unit.fn = "update_task_status" /\ ~unit.done
  /\ Returns(Update(1, unit.arg))
  /\ UNCHANGED UnitLocals

\* task.get_preferred_model() on a record with the field and the tag
unit_get_preferred_model ==
  /\ unit.fn = "get_preferred_model" /\ ~unit.done
  /\ Returns(get_preferred_model(unit.arg.model, unit.arg.tags_model))
  /\ UNCHANGED UnitLocals

\* delegate_task: the command it builds for a task
unit_delegate_task ==
  /\ unit.fn = "delegate_task" /\ ~unit.done
  /\ Returns(Command(1, unit.arg))
  /\ UNCHANGED UnitLocals

\* step 3 of the split monitor: the command it builds for a task
unit_split_main ==
  /\ unit.fn = "split_main" /\ ~unit.done
  /\ Returns(SplitCommand(1, unit.arg))
  /\ UNCHANGED UnitLocals

\* phase 1 of the plan-implement workflow: the command it plans with
unit_plan_command ==
  /\ unit.fn = "plan_command" /\ ~unit.done
  /\ Returns(plan_command(unit.arg))
  /\ UNCHANGED UnitLocals

\* main(): the configuration object is built from the two options; a
\* ValidationError is not caught and ends the process
unit_TeamworkCronConfig ==
  /\ unit.fn = "TeamworkCronConfig" /\ ~unit.done
  /\ Returns(IF TeamworkCronConfig(unit.arg.polling_interval,
                                   unit.arg.max_concurrent_tasks)
               THEN "accepted" ELSE "ValidationError")
  /\ UNCHANGED UnitLocals

\* delegate_task: worktree_name = self._generate_worktree_name(task)
unit_generate_worktree_name ==
  /\ unit.fn = "generate_worktree_name" /\ ~unit.done
  /\ Returns(generate_worktree_name(unit.arg.text, unit.arg.has_prototype))
  /\ UNCHANGED UnitLocals

\* split monitor: worktree_name = make_worktree_name(task_prompt, ...)
unit_make_worktree_name ==
  /\ unit.fn = "make_worktree_name" /\ ~unit.done
  /\ \E id \in Ids :
       Returns(make_worktree_name(unit.arg.text, unit.arg.has_prototype, id))
  /\ UNCHANGED UnitLocals

\* simple monitor: worktree_name = make_worktree_name(task_prompt)
unit_simple_make_worktree_name ==
  /\ unit.fn = "simple_make_worktree_name" /\ ~unit.done
  /\ \E id \in Ids :
       Returns(simple_make_worktree_name(unit.arg.text, id))
  /\ UNCHANGED UnitLocals

\* the loop body of the split monitor for one description: the trigger,
\* the tags and, for a description with a trigger, the prompt
unit_extract_inline_tags ==
  /\ unit.fn = "extract_inline_tags" /\ ~unit.done
  /\ LET trig == detect_execution_trigger(unit.arg) IN
       Returns([trigger |-> trig,
                tags |-> extract_inline_tags(unit.arg),
                prompt |-> IF trig # "none"
                             THEN extract_task_prompt(unit.arg, trig)
                             ELSE <<>>])
  /\ UNCHANGED UnitLocals

\* delegate_task: task_prompt = task.get_task_prompt_for_agent()
unit_get_task_prompt_for_agent ==
  /\ unit.fn = "get_task_prompt_for_agent" /\ ~unit.done
  /\ Returns(get_task_prompt_for_agent(unit.arg.description,
                                       unit.arg.execution_trigger,
                                       unit.arg.task_prompt))
  /\ UNCHANGED UnitLocals

unit_Worktree_get_eligible_tasks ==
  /\ unit.fn = "Worktree.get_eligible_tasks" /\ ~unit.done
  /\ Returns(Worktree_get_eligible_tasks(unit.arg))
  /\ UNCHANGED UnitLocals

unit_TaskUpdate ==
  /\ unit.fn = "TaskUpdate" /\ ~unit.done
  /\ Returns(IF TaskUpdate(unit.arg.status, unit.arg.commit_hash,
                           unit.arg.pydantic)
               THEN "accepted" ELSE "ValidationError")
  /\ UNCHANGED UnitLocals

NextUnit ==
  \/ unit_update_task_status
  \/ unit_get_preferred_model
  \/ unit_delegate_task
  \/ unit_split_main
  \/ unit_plan_command
  \/ unit_TeamworkCronConfig
  \/ unit_generate_worktree_name
  \/ unit_make_worktree_name
  \/ unit_simple_make_worktree_name
  \/ unit_extract_inline_tags
  \/ unit_get_task_prompt_for_agent
  \/ unit_Worktree_get_eligible_tasks
  \/ unit_TaskUpdate

SpecUnit == InitUnit /\ [][NextUnit]_vars

(* ------------- one workflow process, statement by statement ------------- *)
\* a workflow process at its first statement, for a command a monitor built
NewRun(e) ==
  [cmd |-> e, pc |-> "argv", workflow_success |-> FALSE,
   commit_hash |-> FALSE, error_message |-> "", plan_command |-> "",
   plan_success |-> FALSE, phases |-> <<>>, updates |-> <<>>,
   exit_code |-> -1]

\* the commands the manager and the split monitor build
Commands ==
  {Command(1, task) : task \in RoutedTasks}
  \cup {SplitCommand(1, task) : task \in RoutedTasks}

\* one workflow process started on a task that was claimed, no monitor
InitWorkflow ==
  /\ remote = [t \in Tasks |->
                 [(CHOOSE k \in TaskKinds : k.trigger = "execute")
                    EXCEPT !.status = "In Progress"]]
  /\ config = [once |-> TRUE, dry_run |-> FALSE, max_concurrent_tasks |-> 1,
               has_project_id |-> TRUE]
  /\ insts = {}
  /\ InitLocals
  /\ text = NoText
  /\ unit = NoUnit
  /\ run \in {NewRun(e) : e \in Commands}

RunLocals ==
  <<config, insts, pc, tasks, idx, processed, active_adw_ids, adw_id,
    result, executions, nClaimOk, nSpawn, call, cyc, text, unit>>

IsBuild == run.cmd.script = "adw_build_update_teamwork_task"

\* parser.parse_args(): exit status 2 on a wrong number of positionals
wf_parse_args ==
  /\ run.pc = "argv"
  /\ run' = IF parse_args(run.cmd.script, run.cmd.argv)
              THEN [run EXCEPT !.pc = "working_dir"]
              ELSE [run EXCEPT !.pc = "exited", !.exit_code = 2]
  /\ UNCHANGED remote
  /\ UNCHANGED RunLocals

\* main(), before the try block: worktree_path.exists() / os.getcwd();
\* os.getcwd() raises when the directory is gone and nothing catches it
wf_working_dir ==
  /\ run.pc = "working_dir"
  /\ \E raised \in BOOLEAN :
       run' = IF raised
                THEN [run EXCEPT !.pc = "exited", !.exit_code = 1,
                                 !.error_message = "uncaught"]
                ELSE [run EXCEPT !.pc = IF IsBuild THEN "build" ELSE "plan"]
  /\ UNCHANGED remote
  /\ UNCHANGED RunLocals

AgentOutcomes == {"success", "failure", "exception"}

\* build script: the /build request; failure sets error_message, an
\* exception is caught by "except Exception"
wf_build ==
  /\ run.pc = "build"
  /\ \E o \in AgentOutcomes :
       run' = CASE o = "success" ->
                     [run EXCEPT !.pc = "commit_hash",
                                 !.phases = Append(@, "build"),
                                 !.workflow_success = TRUE]
                [] o = "failure" ->
                     [run EXCEPT !.pc = "update",
                                 !.phases = Append(@, "build"),
                                 !.error_message = "Build failed"]
                [] o = "exception" ->
                     [run EXCEPT !.pc = "update",
                                 !.phases = Append(@, "build"),
                                 !.error_message = "Exception during build"]
  /\ UNCHANGED remote
  /\ UNCHANGED RunLocals

\* plan-implement script, phase 1: the planning command; a failure is
\* raised and caught like an exception
wf_plan ==
  /\ run.pc = "plan"
  /\ \E o \in AgentOutcomes :
       run' = IF o = "success"
                THEN [run EXCEPT !.pc = "plan_file",
                        !.phases = Append(@, "plan"),
                        !.plan_success = TRUE,
                        !.plan_command = plan_command(run.cmd.prototype)]
                ELSE [run EXCEPT !.pc = "update",
                        !.phases = Append(@, "plan"),
                        !.plan_command = plan_command(run.cmd.prototype),
                        !.error_message = "Exception during workflow"]
  /\ UNCHANGED remote
  /\ UNCHANGED RunLocals

\* the search for the plan file in specs/: a path or none, or an exception
\* of the file system (p.stat() on a file that is gone), which is caught
wf_plan_file ==
  /\ run.pc = "plan_file"
  /\ \E raised \in BOOLEAN :
       run' = IF raised
                THEN [run EXCEPT !.pc = "update",
                        !.error_message = "Exception during workflow"]
                ELSE [run EXCEPT !.pc = "implement"]
  /\ UNCHANGED remote
  /\ UNCHANGED RunLocals

\* phase 2: /implement
wf_implement ==
  /\ run.pc = "implement"
  /\ \E o \in AgentOutcomes :
       run' = IF o = "success"
                THEN [run EXCEPT !.pc = "commit_hash",
                                 !.phases = Append(@, "implement"),
                                 !.workflow_success = TRUE]
                ELSE [run EXCEPT !.pc = "update",
                        !.phases = Append(@, "implement"),
                        !.error_message = "Exception during workflow"]
  /\ UNCHANGED remote
  /\ UNCHANGED RunLocals

\* git rev-parse HEAD in its own try block: a hash, or none (non-zero
\* return code, empty output, exception)
wf_commit_hash ==
  /\ run.pc = "commit_hash"
  /\ \E got \in BOOLEAN :
       run' = [run EXCEPT !.pc = "update", !.commit_hash = got]
  /\ UNCHANGED remote
  /\ UNCHANGED RunLocals

\* after the try block: the update request is built and executed with no
\* handler around it; an exception there ends the process with a traceback
wf_update ==
  /\ run.pc = "update"
  /\ \/ \E ok \in BOOLEAN :
          LET st == update_status(run.workflow_success, run.commit_hash) IN
          /\ remote' = execute_template_update(remote, run.cmd.task, st, ok)
          /\ run' = [run EXCEPT !.pc = "exit",
                                !.phases = Append(@, "update"),
                                !.updates = Append(@, st)]
     \/ /\ run' = [run EXCEPT !.pc = "exited", !.exit_code = 1,
                              !.error_message = "uncaught"]
        /\ UNCHANGED remote
  /\ UNCHANGED RunLocals

\* sys.exit(0 if workflow_success else 1)
wf_exit ==
  /\ run.pc = "exit"
  /\ run' = [run EXCEPT !.pc = "exited",
               !.exit_code = IF run.workflow_success THEN 0 ELSE 1]
  /\ UNCHANGED remote
  /\ UNCHANGED RunLocals

NextWorkflow ==
  \/ wf_parse_args
  \/ wf_working_dir
  \/ wf_build
  \/ wf_plan
  \/ wf_plan_file
  \/ wf_implement
  \/ wf_commit_hash
  \/ wf_update
  \/ wf_exit

SpecWorkflow == InitWorkflow /\ [][NextWorkflow]_vars

\* the process is scheduled until it ends: every statement gets its turn
SpecWorkflowFair == SpecWorkflow /\ WF_vars(NextWorkflow)

(* ------------- the scheduler when every report arrives ------------------ *)
TerminalStatuses == {map_status_to_teamwork("Done"),
                     map_status_to_teamwork("Failed")}

\* a workflow process whose arguments were accepted: the agent returns and
\* the update request succeeds, so the task gets "Done" or "Failed"
Reports(e) ==
  parse_args(e.script, e.argv) => remote'[e.task].status \in TerminalStatuses

\* the "Failed" update of the rollback succeeds
RolledBack(i) == remote'[CurTask(i)].status = map_status_to_teamwork("Failed")

\* the steps of the manager and of its workflow processes with no
\* interrupt, no exception outside the try blocks and every report arriving
NextReporting ==
  \/ \E i \in insts : main(i)
  \/ \E i \in insts : run_once_fetch(i)
  \/ \E i \in insts : delegate_task_mint(i)
  \/ \E i \in insts : delegate_task_claim(i)
  \/ \E i \in insts : delegate_task_spawn(i)
  \/ \E i \in insts : delegate_task_rollback(i) /\ RolledBack(i)
  \/ \E i \in insts : run_once_next(i)
  \/ \E i \in insts : main_exit_once(i)
  \/ \E i \in insts : run_continuous_sleep(i)
  \/ \E e \in executions : workflow_main(e) /\ Reports(e)

\* the manager and every spawned process are scheduled as long as they
\* have a step to take
SpecReporting ==
  /\ Init
  /\ [][NextReporting]_vars
  /\ WF_vars(\E i \in insts :
               \/ main(i) \/ run_once_fetch(i) \/ delegate_task_mint(i)
               \/ delegate_task_claim(i) \/ delegate_task_spawn(i)
               \/ (delegate_task_rollback(i) /\ RolledBack(i))
               \/ run_once_next(i) \/ main_exit_once(i)
               \/ run_continuous_sleep(i))
  /\ \A t \in Tasks :
       WF_vars(\E e \in executions :
                 e.task = t /\ workflow_main(e) /\ Reports(e))

(* ------------------------------ claims --------------------------------- *)
Returned(i) == pc[i] = "delegate_ret"

ClaimUpdate(t) ==
  [task |-> t, status |-> "In progress", sent |-> "In Progress"]

FailedUpdate(t) ==
  [task |-> t, status |-> "Failed", sent |-> "Blocked"]

\* C1: a step of delegate_task spawns a process for a task only if the one
\* update issued so far in that call is the claim of that same task and it
\* returned success.
C1_SpawnOnlyAfterClaim ==
  [][\A i \in insts :
       (~call[i].spawned /\ call'[i].spawned) =>
          /\ call[i].claimOk
          /\ call[i].updates = <<ClaimUpdate(CurTask(i))>>
          /\ \E e \in executions' : e.task = CurTask(i)]_vars

C1_Witness ==
  \E i \in insts : Returned(i) /\ call[i].spawned /\ call[i].claimOk

\* C2: with one scheduler and nobody resetting a status, no task is claimed
\* with success twice and no task is spawned twice, over any number of
\* polling cycles.
C2_AtMostOnce ==
  \A t \in Tasks : nClaimOk[t] <= 1 /\ nSpawn[t] <= 1

\* a later cycle of the continuous loop has fetched with success while a
\* task spawned earlier still carries its trigger
C2_Witness ==
  /\ ~config.once
  /\ pc[1] = "cycle_end" /\ cyc[1].fetch = "ok" /\ cyc[1].claimed = {}
  /\ \E t \in Tasks : nClaimOk[t] = 1 /\ nSpawn[t] = 1
                      /\ remote[t].trigger = "execute"

\* C3: when delegate_task returns after a failed claim it has spawned
\* nothing, its dispatch id is not in active_adw_ids, the claim is the only
\* update it issued, it returns False, and the task has the status it had
\* before the call and is still eligible.
C3_ClaimFailure ==
  \A i \in insts :
    (Returned(i) /\ call[i].outcome = "claim_failed") =>
       /\ ~call[i].spawned
       /\ CurTask(i) \notin cyc[i].spawned
       /\ adw_id[i] \notin active_adw_ids[i]
       /\ call[i].updates = <<ClaimUpdate(CurTask(i))>>
       /\ result[i] = FALSE
       /\ remote[CurTask(i)].status = call[i].statusBefore
       /\ is_eligible_for_processing(remote[CurTask(i)].status,
                                     remote[CurTask(i)].trigger)

C3_Witness ==
  \E i \in insts : Returned(i) /\ call[i].outcome = "claim_failed"

\* C4: when delegate_task returns after a failed spawn it has issued, after
\* the successful claim, exactly one more update, with system status
\* "Failed" sent as "Blocked", its dispatch id is not in active_adw_ids and
\* it returns False.
C4_SpawnFailure ==
  \A i \in insts :
    (Returned(i) /\ call[i].outcome = "spawn_failed") =>
       /\ call[i].claimOk
       /\ call[i].updates =
            <<ClaimUpdate(CurTask(i)), FailedUpdate(CurTask(i))>>
       /\ ~call[i].spawned
       /\ adw_id[i] \notin active_adw_ids[i]
       /\ result[i] = FALSE

C4_Witness ==
  \E i \in insts : Returned(i) /\ call[i].outcome = "spawn_failed"

\* C5: in one cycle no more than max_concurrent_tasks tasks are claimed or
\* spawned, whatever the fetch returns.
C5_Ceiling ==
  \A i \in insts :
    /\ Cardinality(cyc[i].claimed) <= config.max_concurrent_tasks
    /\ Cardinality(cyc[i].spawned) <= config.max_concurrent_tasks

\* C6: when delegate_task has returned, whatever the outcome, the dispatch
\* id of that call is not in active_adw_ids.
C6_IdRemovedOnReturn ==
  \A i \in insts : Returned(i) => adw_id[i] \notin active_adw_ids[i]

\* C7: the dispatch id a delegation attempt uses was not in active_adw_ids
\* when the attempt started.
C7_IdFresh ==
  \A i \in insts :
    pc[i] \in {"claim", "spawn", "rollback", "delegate_ret"} =>
       adw_id[i] \notin call[i].startIds

\* C8: in dry-run mode delegate_task spawns nothing and issues no remote
\* update, and the remote statuses at the end of a cycle are those of its
\* start.
C8_DryRunNoChange ==
  config.dry_run =>
    \A i \in insts :
      /\ call[i].updates = <<>>
      /\ ~call[i].spawned
      /\ pc[i] = "cycle_end" => remote = cyc[i].startRemote

\* C9: in continuous mode no error raised inside a cycle ends the loop: the
\* scheduler process is never terminated by an exception.
C9_LoopSurvivesErrors ==
  ~config.once => \A i \in insts : pc[i] # "crashed"

\* C10: when the fetch fails (reports failure, raises, returns unparsable
\* or empty data) run_once returns 0 with no claim and no spawn issued in
\* that cycle.
C10_FetchFailure ==
  \A i \in insts :
    cyc[i].fetch \in {"fail", "raise", "unparsable", "empty"} =>
       /\ pc[i] \in {"cycle_end", "exit0", "stopped", "crashed"}
       /\ tasks[i] = <<>>
       /\ processed[i] = 0
       /\ cyc[i].claimed = {} /\ cyc[i].spawned = {}

\* the fetch failed while the remote held an eligible task
C10_Witness ==
  \E i \in insts :
    /\ pc[i] = "cycle_end"
    /\ cyc[i].fetch \in {"fail", "raise", "unparsable"}
    /\ \E t \in Tasks :
         is_eligible_for_processing(remote[t].status, remote[t].trigger)

\* the delegation attempts of the cycle that returned False
FailedAttempts(i) ==
  {k \in DOMAIN cyc[i].results : ~cyc[i].results[k]}

\* C11: when the for loop of run_once has ended, every task of the list
\* get_eligible_tasks returned has had its own delegation attempt, whichever
\* of them failed: one result per task of the list and a claim issued for
\* each; records that failed to parse did not empty the list.
C11_SiblingsAttempted ==
  \A i \in insts :
    (pc[i] = "cycle_end" /\ cyc[i].fetch = "ok") =>
       /\ Len(cyc[i].results) = Len(cyc[i].listed)
       /\ cyc[i].claimed = Range(cyc[i].listed)

\* the first of two tasks failed (claim or spawn) and the second was
\* attempted after it
C11_Witness ==
  \E i \in insts :
    /\ pc[i] = "cycle_end"
    /\ Len(cyc[i].listed) >= 2
    /\ 1 \in FailedAttempts(i)
    /\ cyc[i].listed[2] \in cyc[i].claimed

\* C12: a scheduler stopped by an interrupt never leaves a task whose
\* claim succeeded with neither a process spawned nor a rollback issued.
C12_InterruptFinishesAttempt ==
  \A i \in insts :
    pc[i] = "stopped" =>
      ~(/\ call[i].claimOk
        /\ ~call[i].spawned
        /\ Len(call[i].updates) = 1
        /\ call[i].outcome = "none"
        /\ ~config.dry_run)

\* the task of C14: trigger execute, the tag model: opus, no prototype and
\* a prompt short enough for the build workflow
OpusBuildTask(task) ==
  /\ task.trigger = "execute"
  /\ task.model = "opus"
  /\ task.prototype = ""
  /\ ~should_use_full_workflow(task.workflow, task.workflow, task.prompt_len)

\* C14: when delegate_task has spawned a process for a task fetched with
\* status "new", trigger execute and the tag model: opus, the call issued
\* exactly one update, the claim with the remote status "In Progress", and
\* the one process spawned for the task runs the build workflow script
\* with the model opus.
C14_OpusBuild ==
  \A i \in insts :
    (/\ pc[i] = "delegate_ret"
     /\ call[i].outcome = "spawned"
     /\ call[i].statusBefore = "new"
     /\ OpusBuildTask(remote[CurTask(i)])) =>
       /\ call[i].updates =
            <<[task |-> CurTask(i), status |-> "In progress",
               sent |-> "In Progress"]>>
       /\ nClaimOk[CurTask(i)] = 1
       /\ nSpawn[CurTask(i)] = 1
       /\ call[i].cmd.task = CurTask(i)
       /\ call[i].cmd.script = "adw_build_update_teamwork_task"
       /\ call[i].cmd.model = "opus"

\* max_concurrent_tasks = 1 and the opus task has just been dispatched
C14_Witness ==
  \E i \in insts :
    /\ config.max_concurrent_tasks = 1
    /\ pc[i] = "delegate_ret"
    /\ call[i].outcome = "spawned"
    /\ call[i].statusBefore = "new"
    /\ OpusBuildTask(remote[CurTask(i)])
    /\ Len(cyc[i].listed) = 1

\* the delegation attempts of the cycle that returned True
SucceededAttempts(i) ==
  {k \in DOMAIN cyc[i].results : cyc[i].results[k]}

\* C15: in --once mode the process ends with exit status 0 after one
\* fetch/filter/delegate pass whose count is the number of delegate_task
\* calls that returned True, and never ends by an exception that leaves
\* run_once.
C15_OnceExitsZero ==
  \A i \in insts :
    (config.once /\ config.has_project_id) =>
       /\ pc[i] = "exit0" =>
            /\ cyc[i].fetch # "none"
            /\ processed[i] = Cardinality(SucceededAttempts(i))
       /\ ~(pc[i] = "crashed" /\ cyc[i].raised)

\* C13: with two schedulers on one remote, a scheduler lists, claims and
\* spawns in a cycle only tasks whose status was still an eligible one when
\* that cycle fetched: a task already claimed by the other scheduler at the
\* time of the fetch is not dispatched again. (The double dispatch inside
\* the window is the state C13_Witness.)
C13_NoDispatchOutsideWindow ==
  \A j \in insts : \A t \in Tasks :
    Lower(cyc[j].startRemote[t].status) \notin {"new", "to do", "review"} =>
       /\ t \notin Range(cyc[j].listed)
       /\ t \notin cyc[j].claimed
       /\ t \notin cyc[j].spawned

\* both schedulers fetched the task before either claimed it, and both
\* claimed it and spawned a process for it
C13_Witness ==
  \E t \in Tasks :
    /\ t \in cyc[1].spawned /\ t \in cyc[2].spawned
    /\ Lower(cyc[1].startRemote[t].status) \in {"new", "to do", "review"}
    /\ Lower(cyc[2].startRemote[t].status) \in {"new", "to do", "review"}
    /\ nClaimOk[t] = 2
    /\ nSpawn[t] = 2

\* C16: a monitor started without a project id in its environment never
\* gets past its start: it ends with a non-zero status before any fetch,
\* claim or spawn.
C16_NoProjectIdExits ==
  \A i \in insts :
    ~config.has_project_id =>
       /\ pc[i] \in {"start", "exit1"}
       /\ cyc[i].fetch = "none"
       /\ executions = {}

\* C17: for a record that went through the eligibility tests (the one of
\* TeamworkTask and the one of the split monitor), eligible means exactly:
\* the status is new, to do or review in some letter case and the trigger
\* detected is execute or continue; never with status done, never with
\* status new and no trigger.
C17_Eligibility ==
  text.phase \in {"detected", "done"} =>
    LET expected ==
          /\ text.status \in {"new", "New", "NEW", "to do", "To Do",
                               "review", "Review"}
          /\ text.trigger \in {"execute", "continue"}
    IN /\ text.eligible <=> expected
       /\ text.listed <=> expected
       /\ text.status \in {"done", "Done"} => ~text.eligible /\ ~text.listed
       /\ (text.status = "new" /\ text.trigger = "none") =>
             ~text.eligible /\ ~text.listed

\* a record with status "To Do" and a continue trigger was found eligible
C17_Witness ==
  /\ text.phase = "detected"
  /\ text.status = "To Do"
  /\ text.trigger = "continue"
  /\ text.eligible
  /\ text.listed

\* the description ends in white space followed by the word execute in
\* some letter case
EndsInSpaceExecute(b) ==
  /\ Len(b) >= 2
  /\ Lower(b[Len(b)]) = "execute"
  /\ IsSpace(b[Len(b) - 1])

\* C18: for a description ending in white space and the word execute in
\* any letter case the trigger detected is execute, and the prompt
\* extracted is the description without its tags and without that last
\* word, trimmed.
C18_TrailingExecute ==
  EndsInSpaceExecute(text.body) =>
    /\ text.phase \in {"detected", "done"} => text.trigger = "execute"
    /\ text.phase = "done" =>
         LET ub == RemoveInlineTags(text.body) IN
         text.prompt = strip(SubSeq(ub, 1, Len(ub) - 1))

\* the texts X such that the description contains "continue - X" in some
\* letter case, X not empty
ContinueXs(b) ==
  {SubSeq(b, HyphenAfter(b, k) + 1, Len(b)) :
     k \in {n \in DOMAIN b : /\ Lower(b[n]) = "continue"
                             /\ HyphenAfter(b, n) > 0
                             /\ HyphenAfter(b, n) < Len(b)}}

\* C19 as stated: for a description containing "continue - X" with X not
\* empty the trigger detected is continue and the prompt extracted is X
\* trimmed.
C19_ContinuePrompt ==
  ContinueXs(text.body) # {} =>
    /\ text.phase \in {"detected", "done"} => text.trigger = "continue"
    /\ text.phase = "done" =>
         \A X \in ContinueXs(text.body) : text.prompt = strip(X)

\* the text after the first "continue -" of s
FirstX(s) ==
  CHOOSE X \in ContinueXs(s) : \A Y \in ContinueXs(s) : Len(Y) <= Len(X)

\* the case C19 holds for: the trimmed description does not end with the
\* word execute, and some X holds a character other than a line break
ContinueCase(b) ==
  /\ strip(b) # <<>>
  /\ strip(b)[Len(strip(b))] # "execute"
  /\ \E X \in ContinueXs(b) : \E q \in DOMAIN X : X[q] # "\n"

\* C19 amended: in that case the trigger detected is continue, and the
\* prompt extracted is the trimmed text after the first "continue -" of
\* the description with its {{key: value}} spans removed (all of it,
\* trimmed, when no "continue - X" is left after the removal); with no such
\* span and one "continue -" that is X trimmed.
C19_ContinuePromptAmended ==
  ContinueCase(text.body) =>
    /\ text.phase \in {"detected", "done"} => text.trigger = "continue"
    /\ text.phase = "done" =>
         LET ub == RemoveInlineTags(text.body) IN
         /\ text.prompt = IF ContinueXs(ub) # {} THEN strip(FirstX(ub))
                                                 ELSE strip(ub)
         /\ (ub = text.body /\ Cardinality(ContinueXs(ub)) = 1) =>
               \A X \in ContinueXs(text.body) : text.prompt = strip(X)

\* a prompt of several lines was extracted from a description that held
\* a tag as well
C19_Witness ==
  /\ text.phase = "done"
  /\ ContinueCase(text.body)
  /\ text.trigger = "continue"
  /\ RemoveInlineTags(text.body) # text.body
  /\ "\n" \in Range(text.prompt)

\* the prompt holds an opening pair of braces and, later, a closing one
HasSpan(p) ==
  \E i, j \in DOMAIN p : i < j /\ p[i] = "{{" /\ p[j] = "}}"

\* C20: an extracted prompt holds no {{...}} span and not the keyword of
\* the trigger it was extracted for.
C20_CleanPrompt ==
  text.phase = "done" =>
    /\ ~HasSpan(text.prompt)
    /\ text.trigger \notin Range(text.prompt)

\* C30: within one scheduler process the tasks of a cycle are delegated one
\* at a time in the order of the fetched list: the claim for the k-th task
\* of the list is sent only when the attempts for the k-1 tasks before it
\* have returned, and the set of in-flight ids changes only by the id of
\* the one attempt that is open.
C30_OneAttemptAtATime ==
  [][\A i \in insts :
       /\ cyc'[i].claimed \ cyc[i].claimed # {} =>
            /\ pc[i] = "claim"
            /\ Len(cyc[i].results) = idx[i] - 1
            /\ idx[i] \in DOMAIN cyc[i].listed
            /\ cyc'[i].claimed = cyc[i].claimed \cup {cyc[i].listed[idx[i]]}
            /\ cyc[i].claimed =
                 Range(SubSeq(cyc[i].listed, 1, idx[i] - 1))
            /\ call[i].updates = <<>>
       /\ active_adw_ids'[i] # active_adw_ids[i] =>
            /\ pc[i] \in {"delegate", "claim", "spawn", "rollback"}
            /\ Len(cyc[i].results) = idx[i] - 1
            /\ \/ active_adw_ids'[i] = active_adw_ids[i] \cup {adw_id'[i]}
               \/ active_adw_ids'[i] = active_adw_ids[i] \ {adw_id[i]}]_vars

\* the second task of a list of two is being claimed after the attempt for
\* the first has returned
C30_Witness ==
  \E i \in insts :
    /\ pc[i] = "spawn"
    /\ idx[i] = 2
    /\ Len(cyc[i].results) = 1
    /\ cyc[i].claimed = Range(cyc[i].listed)
    /\ Len(cyc[i].listed) = 2

\* a call of the function fn has returned
Applied(fn) == unit.fn = fn /\ unit.done

\* the table as the specification lists it, status names in lower case
ListedTable ==
  [s \in {"New", "In progress", "Done", "Review", "Failed", "Blocked"} |->
     CASE s = "New"         -> "new"
       [] s = "In progress" -> "in progress"
       [] s = "Done"        -> "complete"
       [] s = "Review"      -> "review"
       [] s = "Failed"      -> "blocked"
       [] s = "Blocked"     -> "blocked"]

\* C26: update_task_status sends, for a status of the table New->new,
\* In progress->in progress, Done->complete, Review->review,
\* Failed/Blocked->blocked, the mapped name (compared without regard to
\* letter case), and sends every status absent from that table unchanged.
C26_StatusTable ==
  Applied("update_task_status") =>
    IF unit.arg \in DOMAIN ListedTable
      THEN Lower(unit.out.sent) = ListedTable[unit.arg]
      ELSE unit.out.sent = unit.arg

\* C26 amended: the default table is Not started->New, In progress->In
\* Progress, Done->Complete, HIL Review->Review, Failed->Blocked;
\* update_task_status sends the mapped name for these five and every other
\* status (New, Review and Blocked among them) unchanged.
C26_StatusTableAmended ==
  Applied("update_task_status") =>
    unit.out.sent =
      CASE unit.arg = "Not started" -> "New"
        [] unit.arg = "In progress" -> "In Progress"
        [] unit.arg = "Done"        -> "Complete"
        [] unit.arg = "HIL Review"  -> "Review"
        [] unit.arg = "Failed"      -> "Blocked"
        [] OTHER                    -> unit.arg

\* Done has been sent as Complete
C26_Witness ==
  /\ Applied("update_task_status")
  /\ unit.arg = "Done"
  /\ unit.out.sent = "Complete"

ValidModels == {"opus", "sonnet"}

\* the tier the statement of C22 gives for an explicit model and a tag
StatedTier(model, tags_model) ==
  IF model \in ValidModels THEN model
  ELSE IF tags_model \in ValidModels THEN tags_model
  ELSE "sonnet"

\* C22: the model tier of a task is the explicit model when it is opus or
\* sonnet, otherwise the model tag when it is opus or sonnet, otherwise
\* sonnet, and the model argument of every command a monitor builds is that
\* tier, so opus or sonnet.
C22_ModelTier ==
  /\ Applied("get_preferred_model") =>
       unit.out = StatedTier(unit.arg.model, unit.arg.tags_model)
  /\ (Applied("delegate_task") \/ Applied("split_main")) =>
       /\ unit.out.model \in ValidModels
       /\ unit.out.model = StatedTier(unit.arg.model, unit.arg.model)

\* the part of C22 that holds: the command delegate_task builds carries
\* opus or sonnet whatever the tag says
C22_ManagerTier ==
  Applied("delegate_task") =>
    unit.out.model = StatedTier(unit.arg.model, unit.arg.model)

\* C23: a command runs the plan-implement script exactly when the prototype
\* tag is set, or the workflow tag is "plan", or the prompt is longer than
\* 500 characters; otherwise it runs the build script.
C23_Routing ==
  (Applied("delegate_task") \/ Applied("split_main")) =>
    (unit.out.script = "adw_plan_implement_update_teamwork_task" <=>
       \/ unit.arg.prototype # ""
       \/ unit.arg.workflow = "plan"
       \/ unit.arg.prompt_len > 500)

\* the part of C23 that holds: the routing of delegate_task
C23_ManagerRouting ==
  Applied("delegate_task") =>
    /\ unit.out.script \in {"adw_plan_implement_update_teamwork_task",
                            "adw_build_update_teamwork_task"}
    /\ unit.out.script = "adw_plan_implement_update_teamwork_task" <=>
         \/ unit.arg.prototype # ""
         \/ unit.arg.workflow = "plan"
         \/ unit.arg.prompt_len > 500

KnownPrototypes == {"uv_script", "vite_vue", "bun_scripts", "uv_mcp"}

\* C28: the plan-implement workflow plans with the command of the
\* prototype, /plan_<prototype>, for uv_script, vite_vue, bun_scripts and
\* uv_mcp, four different commands, and with the generic /plan for an
\* empty or an unknown prototype.
C28_PlanCommand ==
  Applied("plan_command") =>
    /\ unit.arg = "uv_script"   => unit.out = "/plan_uv_script"
    /\ unit.arg = "vite_vue"    => unit.out = "/plan_vite_vue"
    /\ unit.arg = "bun_scripts" => unit.out = "/plan_bun_scripts"
    /\ unit.arg = "uv_mcp"      => unit.out = "/plan_uv_mcp"
    /\ unit.arg \notin KnownPrototypes => unit.out = "/plan"
    /\ \A a, b \in KnownPrototypes :
         a # b => plan_command(a) # plan_command(b)

\* the prototype uv_mcp has been given its own planning command
C28_Witness ==
  /\ Applied("plan_command")
  /\ unit.arg = "uv_mcp"
  /\ unit.out = "/plan_uv_mcp"

\* C29: the configuration is accepted exactly when the polling interval is
\* at least 1 second and the maximum of concurrent tasks is at least 1.
C29_ConfigLimits ==
  Applied("TeamworkCronConfig") =>
    (unit.out = "accepted" <=>
       /\ unit.arg.polling_interval >= 1
       /\ unit.arg.max_concurrent_tasks >= 1)

\* C29 amended: the configuration is accepted exactly when the polling
\* interval is at least 5 seconds and the maximum of concurrent tasks is
\* between 1 and 10; every other value is rejected.
C29_ConfigLimitsAmended ==
  Applied("TeamworkCronConfig") =>
    (unit.out = "accepted" <=>
       /\ unit.arg.polling_interval >= 5
       /\ unit.arg.max_concurrent_tasks >= 1
       /\ unit.arg.max_concurrent_tasks <= 10)

\* an interval of 4 seconds with a maximum of 1 task has been rejected
C29_Witness ==
  /\ Applied("TeamworkCronConfig")
  /\ unit.arg.polling_interval = 4
  /\ unit.arg.max_concurrent_tasks = 1
  /\ unit.out = "ValidationError"

\* the two functions that name a worktree by prototype or not
NamedByPrototype ==
  unit.done /\ unit.fn \in {"generate_worktree_name", "make_worktree_name"}

\* the first 50 characters of a text, lowercased, every run of characters
\* outside a-z and 0-9 replaced by one hyphen, hyphens at both ends removed
Sanitized(x) ==
  strip_hyphens(re_sub_hyphen(str_lower(Take(x, 50))))

LastChar(s) == s[Len(s)].ch

\* C24: for a text whose sanitized form is not empty the workspace name is
\* proto- (prototype task) or feat- followed by that sanitized form; it
\* holds only a-z, 0-9 and hyphens and does not end with a hyphen; "Fix
\* the login bug!!" without prototype gives feat-fix-the-login-bug.
C24_WorktreeName ==
  (NamedByPrototype /\ Sanitized(unit.arg.text) # <<>>) =>
    /\ unit.out =
         Concat(Prefix(unit.arg.has_prototype), Sanitized(unit.arg.text))
    /\ \A k \in DOMAIN unit.out :
         IsAZ09(unit.out[k].ch) \/ unit.out[k].ch = "-"
    /\ LastChar(unit.out) # "-"
    /\ (unit.arg.text = FixTheLoginBug /\ ~unit.arg.has_prototype) =>
         unit.out =
           Chars(<<"f", "e", "a", "t", "-", "f", "i", "x", "-", "t", "h",
                   "e", "-", "l", "o", "g", "i", "n", "-", "b", "u", "g">>)

\* the part of C24 that holds: make_worktree_name of the split monitor
C24_SplitName ==
  (Applied("make_worktree_name") /\ Sanitized(unit.arg.text) # <<>>) =>
    /\ unit.out =
         Concat(Prefix(unit.arg.has_prototype), Sanitized(unit.arg.text))
    /\ LastChar(unit.out) # "-"

\* the part of C24 that holds for every function: the alphabet of the
\* name and the example
C24_Alphabet ==
  NamedByPrototype =>
    /\ \A k \in DOMAIN unit.out :
         IsAZ09(unit.out[k].ch) \/ unit.out[k].ch = "-"
    /\ (unit.arg.text = FixTheLoginBug /\ ~unit.arg.has_prototype) =>
         unit.out =
           Chars(<<"f", "e", "a", "t", "-", "f", "i", "x", "-", "t", "h",
                   "e", "-", "l", "o", "g", "i", "n", "-", "b", "u", "g">>)

\* C25: for a text whose sanitized form is empty the workspace name is the
\* prefix followed by "task-" and a short id, so the part after the prefix
\* is not empty.
C25_FallbackName ==
  (/\ unit.done
   /\ unit.fn \in {"generate_worktree_name", "make_worktree_name",
                   "simple_make_worktree_name"}
   /\ Sanitized(unit.arg.text) = <<>>) =>
    /\ \E id \in Ids :
         unit.out = Concat(Prefix(unit.arg.has_prototype),
                           Chars(<<"t", "a", "s", "k", "-">>)
                             \o short_id_text(id))
    /\ StrLen(unit.out) > StrLen(Prefix(unit.arg.has_prototype))

\* the part of C25 that holds: the monitors with make_worktree_name
C25_MonitorsFallBack ==
  (/\ unit.done
   /\ unit.fn \in {"make_worktree_name", "simple_make_worktree_name"}
   /\ Sanitized(unit.arg.text) = <<>>) =>
    /\ \E id \in Ids :
         unit.out = Concat(Prefix(unit.arg.has_prototype),
                           Chars(<<"t", "a", "s", "k", "-">>)
                             \o short_id_text(id))
    /\ StrLen(unit.out) > StrLen(Prefix(unit.arg.has_prototype))

\* the workflow process has ended after its arguments were accepted
RunEnded == run.pc = "exited" /\ run.exit_code # 2

\* C27: a workflow process whose arguments were accepted ends, and when it
\* has ended it has issued exactly one status update for its task, with
\* "Done" if the workflow succeeded and a commit hash was obtained and
\* with "Failed" otherwise.
C27_OneReport ==
  /\ (run.pc = "working_dir") ~> RunEnded
  /\ [](RunEnded =>
          /\ Len(run.updates) = 1
          /\ run.updates[1] =
               IF run.workflow_success /\ run.commit_hash
                 THEN "Done" ELSE "Failed")

\* the part of C27 that holds: on the paths agent success, agent failure
\* and exception inside the try block the process issues one update with
\* the stated status and ends
C27_NamedPaths ==
  /\ (run.pc = "update") ~> (run.pc = "exited")
  /\ []((run.pc = "exited" /\ run.exit_code # 2
           /\ run.error_message # "uncaught") =>
          /\ Len(run.updates) = 1
          /\ run.updates[1] =
               IF run.workflow_success /\ run.commit_hash
                 THEN "Done" ELSE "Failed"
          /\ run.exit_code = IF run.workflow_success THEN 0 ELSE 1)

\* the spans "{{key: value}}" of a body from left to right
Spans(body) == FindAllTags(body, 1)

\* C21: extract_inline_tags returns one entry per distinct key among the
\* "{{key: value}}" spans of the body, its value the trimmed value of the
\* last span with that key; a second call on the same body returns the
\* same mapping; "{{model: opus}} {{prototype: vite_vue}} do the thing"
\* gives {model: opus, prototype: vite_vue} and, with or without the
\* trigger word behind it, the cleaned prompt "do the thing".
C21_InlineTags ==
  Applied("extract_inline_tags") =>
    LET ms == Spans(unit.arg) IN
    /\ DOMAIN unit.out.tags = {ms[i].key : i \in DOMAIN ms}
    /\ \A i \in DOMAIN ms :
         (\A j \in DOMAIN ms : j > i => ms[j].key # ms[i].key) =>
           /\ unit.out.tags[ms[i].key] = ms[i].value
           /\ ms[i].value = strip(ms[i].value)
    /\ extract_inline_tags(unit.arg) = unit.out.tags
    /\ unit.arg \in {DoTheThing, DoTheThing \o <<" ", "execute">>} =>
         unit.out.tags = (<<"model">> :> <<"opus">>
                          @@ <<"prototype">> :> <<"vite_vue">>)
    /\ unit.arg = DoTheThing \o <<" ", "execute">> =>
         unit.out.prompt = <<"do", " ", "the", " ", "thing">>
    /\ unit.arg = DoTheThing =>
         extract_task_prompt(unit.arg, unit.out.trigger) =
           <<"do", " ", "the", " ", "thing">>
    /\ unit.arg = <<"{{", "model", ":", " ", "opus", "}}",
                    "{{", "model", ":", "sonnet", " ", "}}">> =>
         unit.out.tags = (<<"model">> :> <<"sonnet">>)

\* a body with two spans of the key model: the value of the second one,
\* trimmed, is the entry
C21_Witness ==
  /\ Applied("extract_inline_tags")
  /\ unit.arg = <<"{{", "model", ":", " ", "opus", "}}",
                  "{{", "model", ":", "sonnet", " ", "}}">>
  /\ unit.out.tags[<<"model">>] = <<"sonnet">>

\* the prompt extract_task_prompt computes for the body of the task
ExtractedPrompt == extract_task_prompt(unit.arg.description, "execute")

\* C31: for an execute-triggered task the prompt delegate_task hands to
\* the workflow (get_task_prompt_for_agent) equals the prompt
\* extract_task_prompt computes for the same body: tag spans removed, only
\* the trailing execute token stripped, every other "execute" kept.
C31_SamePrompt ==
  (Applied("get_task_prompt_for_agent")
     /\ unit.arg.execution_trigger = "execute") =>
    unit.out = ExtractedPrompt

\* the part that holds: the two prompts agree on a body whose only
\* "execute" is the lower-case trailing token and whose braces are all
\* well-formed tag spans
C31_SingleTrigger ==
  (Applied("get_task_prompt_for_agent")
     /\ unit.arg.execution_trigger = "execute"
     /\ Cardinality({k \in DOMAIN unit.arg.description :
                       Lower(unit.arg.description[k]) = "execute"}) = 1
     /\ \E k \in DOMAIN unit.arg.description :
          unit.arg.description[k] = "execute"
     /\ RemoveBraces(unit.arg.description)
          = RemoveInlineTags(unit.arg.description)) =>
    unit.out = ExtractedPrompt

\* "execute a execute" without blanks: the inner word is removed as well
C31_InnerWordRemoved ==
  /\ Applied("get_task_prompt_for_agent")
  /\ unit.arg.description = <<"execute", "a", "execute">>
  /\ unit.out = <<"a">>
  /\ ExtractedPrompt = <<"execute", "a">>

\* C34: the argument list delegate_task passes to a workflow script is
\* accepted by the command line of that script, for the build script and
\* for the plan-implement script with and without a prototype, so that the
\* process gets past argument parsing.
C34_ArgvAccepted ==
  Applied("delegate_task") => parse_args(unit.out.script, unit.out.argv)

\* the command lines of the split monitor, which passes the model and the
\* project id as options, are accepted
C34_SplitArgvAccepted ==
  Applied("split_main") => parse_args(unit.out.script, unit.out.argv)

\* no argument list of delegate_task is accepted: six positionals for the
\* build script, seven for the plan-implement script
C34_ArgvRejected ==
  Applied("delegate_task") =>
    /\ ~parse_args(unit.out.script, unit.out.argv)
    /\ NumPositional(unit.out.argv) =
         IF unit.out.script = "adw_build_update_teamwork_task" THEN 6 ELSE 7

\* the workflow process has reported a status and ended
Reported == run.pc = "exited" /\ Len(run.updates) = 1

\* C36: for both workflow scripts the exit code agrees with the status
\* reported to the remote service: 0 exactly when "Done" was reported and
\* non-zero exactly when "Failed" was reported.
C36_ExitCodeAgrees ==
  Reported =>
    /\ run.exit_code = 0 <=> run.updates[1] = "Done"
    /\ run.exit_code # 0 <=> run.updates[1] = "Failed"

\* the part of C36 that holds: a process that reported "Done" exits with 0
\* and a process that exits with a non-zero code reported "Failed"
C36_DoneExitsZero ==
  Reported =>
    /\ run.updates[1] = "Done" => run.exit_code = 0
    /\ run.exit_code # 0 => run.updates[1] = "Failed"

\* the agent succeeded and git rev-parse gave no hash: "Failed", exit code 0
C36_FailedExitsZero ==
  /\ Reported
  /\ run.workflow_success /\ ~run.commit_hash
  /\ run.updates[1] = "Failed"
  /\ run.exit_code = 0

\* the plan-implement process has ended after its arguments were accepted
PlanRunEnded == ~IsBuild /\ RunEnded

\* C35: in the plan-implement workflow the phases run in the order plan,
\* implement, update: the implement command is invoked only after the plan
\* command reported success, a planning failure skips implementation, and
\* the status update is issued after both in every execution.
C35_PhaseOrder ==
  PlanRunEnded =>
    /\ run.phases \in {<<"plan", "update">>, <<"plan", "implement", "update">>}
    /\ run.phases = <<"plan", "implement", "update">> => run.plan_success
    /\ ~run.plan_success => run.phases = <<"plan", "update">>

\* the part of C35 that holds: the phases that ran form a prefix of plan,
\* implement, update with the implement phase left out at most, implement
\* runs only after a plan that reported success, and every execution that
\* ends without an uncaught exception issued the update as its last phase
C35_OrderOfPhasesRun ==
  ~IsBuild =>
    /\ run.phases \in {<<>>, <<"plan">>, <<"plan", "implement">>,
                        <<"plan", "update">>,
                        <<"plan", "implement", "update">>}
    /\ (\E k \in DOMAIN run.phases : run.phases[k] = "implement") =>
         run.plan_success
    /\ (run.pc = "exited" /\ run.exit_code # 2
          /\ run.error_message # "uncaught") =>
         run.phases[Len(run.phases)] = "update"

\* the plan succeeded, the implementation failed and the update was issued
C35_AllPhasesRan ==
  /\ PlanRunEnded
  /\ run.phases = <<"plan", "implement", "update">>
  /\ ~run.workflow_success

\* the working directory is gone: the process ends before any phase
C35_NoPhaseRan ==
  PlanRunEnded /\ run.phases = <<>>

\* a workflow execution spawned for task t has not run yet
Outstanding(t) == \E e \in executions : e.task = t

\* C32: in the split monitor, over any number of polling cycles, a task is
\* dispatched to at most one workflow execution while that execution has
\* not reported a terminal status: no workflow is spawned for a task whose
\* earlier execution is still outstanding.
C32_NoSecondSpawn ==
  [][\A t \in Tasks : nSpawn'[t] # nSpawn[t] => ~Outstanding(t)]_vars

\* the part of C32 that holds: within one cycle no task is spawned twice
C32_OncePerCycle ==
  [][\A i \in insts : \A t \in Tasks :
       nSpawn'[t] # nSpawn[t] => t \notin cyc[i].spawned]_vars

\* a task still "new" was spawned in two cycles and neither execution ran
C32_SpawnedTwice ==
  \E t \in Tasks :
    /\ nSpawn[t] = 2
    /\ Outstanding(t)
    /\ remote[t].status = "new"
    /\ nClaimOk[t] = 0

\* C37: in continuous mode the scheduler alternates cycle and sleep until
\* an interrupt is received, and an interrupt received at any point, during
\* the sleep or during a cycle, makes run_continuous return cleanly: the
\* loop is left only by the return that follows an interrupt.
C37_RunsUntilInterrupt ==
  [][\A i \in insts :
       (~config.once /\ pc[i] \in RunningPcs) =>
         pc'[i] \in RunningPcs \cup {"stopped"}]_vars

\* the part of C37 that holds: the sleep is followed by the next cycle, and
\* the loop is left with an exception only when one was raised inside the
\* cycle, never by an interrupt, which is caught at any point of the loop
C37_InterruptReturns ==
  [][\A i \in insts :
       (~config.once /\ pc[i] \in RunningPcs) =>
         /\ pc'[i] = "crashed" => (cyc'[i].raised /\ pc[i] \in UnguardedPcs)
         /\ (pc[i] = "cycle_end" /\ pc'[i] # pc[i]) =>
              pc'[i] \in {"cycle", "stopped"}]_vars

\* continuous mode left with an exception in the second cycle
C37_LoopLeftByException ==
  \E i \in insts :
    /\ ~config.once
    /\ pc[i] = "crashed"
    /\ cyc[i].raised
    /\ \E t \in Tasks : nClaimOk[t] > 0

\* continuous mode stopped by an interrupt in the middle of an attempt
C37_StoppedInCycle ==
  \E i \in insts :
    ~config.once /\ pc[i] = "stopped" /\ call[i].claimOk /\ ~call[i].spawned

\* the scheduler moved task t to "In progress" and it has that status
ClaimedInProgress(t) ==
  nClaimOk[t] > 0 /\ remote[t].status = map_status_to_teamwork("In progress")

\* C33: every task the scheduler moved to "In progress" eventually leaves
\* that status: under fair scheduling, with the agent runner returning and
\* the updates of the workflow succeeding, each claimed task eventually
\* gets a terminal status, from the spawned workflow or from the rollback.
C33_ClaimedTaskFinishes ==
  \A t \in Tasks :
    ClaimedInProgress(t) ~> (remote[t].status \in TerminalStatuses)

\* the part of C33 that holds: outside dry-run mode a claimed task does not
\* stay "In progress" without a process spawned for it: the spawn failure
\* is rolled back to the "Failed" status
C33_ClaimedTaskSpawnedOrRolledBack ==
  \A t \in Tasks :
    (ClaimedInProgress(t) /\ ~config.dry_run) ~>
      (nSpawn[t] > 0 \/ remote[t].status \in TerminalStatuses)

\* a task claimed and spawned, its process gone, still "In progress"
C33_StuckInProgress ==
  \E t \in Tasks :
    /\ ClaimedInProgress(t)
    /\ ~config.dry_run
    /\ nSpawn[t] > 0
    /\ executions = {}
    /\ \E i \in insts : pc[i] = "cycle_end"

\* C38: Worktree.get_eligible_tasks returns, in their original order,
\* exactly the tasks with status "[]" together with the blocked tasks for
\* which every task above them in the list is successful; a blocked task
\* with a non-successful task above it is never returned, and every task
\* returned satisfies is_eligible_for_pickup.
C38_EligibleTasks ==
  Applied("Worktree.get_eligible_tasks") =>
    LET ts == unit.arg
        out == unit.out IN
    /\ \A a, b \in DOMAIN out : a < b => out[a] < out[b]
    /\ Range(out) =
         {i \in DOMAIN ts :
            \/ ts[i] = "[]"
            \/ /\ ts[i] = "[clock]"
               /\ \A j \in DOMAIN ts : j < i => ts[j] = "[check]"}
    /\ \A i \in DOMAIN ts :
         (ts[i] = "[clock]" /\ \E j \in DOMAIN ts : j < i /\ ts[j] # "[check]")
           => i \notin Range(out)
    /\ \A i \in Range(out) : is_eligible_for_pickup(ts[i])

\* the blocked task at the top of the list is returned, the blocked task
\* below a failed one is left out
C38_Witness ==
  /\ Applied("Worktree.get_eligible_tasks")
  /\ unit.arg = <<"[clock]", "[cross]", "[clock]">>
  /\ unit.out = <<1>>

\* C39: a TaskUpdate can only be constructed with a terminal status, and a
\* TaskUpdate with the success status always carries a non-empty commit
\* hash: construction with the success status and a missing or empty
\* commit hash is rejected with a validation error.
C39_SuccessCarriesHash ==
  (Applied("TaskUpdate") /\ unit.out = "accepted") =>
    /\ unit.arg.status \in {"[check]", "[cross]"}
    /\ unit.arg.status = "[check]" =>
         unit.arg.commit_hash \notin {"missing", "None", ""}

\* the part of C39 that holds: only terminal statuses are accepted, and
\* the success status with an empty string as commit hash is rejected
C39_EmptyHashRejected ==
  Applied("TaskUpdate") =>
    /\ unit.out = "accepted" => unit.arg.status \in {"[check]", "[cross]"}
    /\ (unit.arg.status = "[check]" /\ unit.arg.commit_hash = "") =>
         unit.out = "ValidationError"

\* the success status with the commit hash left out is accepted
C39_MissingHashAccepted ==
  /\ Applied("TaskUpdate")
  /\ unit.arg.status = "[check]"
  /\ unit.arg.commit_hash = "missing"
  /\ unit.arg.pydantic = 2
  /\ unit.out = "accepted"

====
